---------------------------- MODULE Spec2Model ----------------------------
(***************************************************************************)
(* The run-scheduling state machine of the QuantDesk signal bot            *)
(* (src/signal_bot.py, class SignalBot and setup_signal_tasks).            *)
(*                                                                         *)
(* Two callers invoke SignalBot.run_all_signals: the scheduled             *)
(* daily_signal_task ("task", once a day at 14:30) and the admin command   *)
(* cmd_force_signals ("cmd", at any time).  A run is cut into steps at the *)
(* places where the code reads the clock and where it awaits a send:       *)
(*                                                                         *)
(*   idle --run_all_signals--> daily --run_daily_tmem_signal--> gate       *)
(*                               \--> daily_send --DailySend--> gate       *)
(*   gate --run_monthly_rebalance--> done | tmem_send | mec_send           *)
(*   tmem_send --TmemSend--> done | mec_send      mec_send --MecSend--> done*)
(*   done --Return--> idle                                                 *)
(*                                                                         *)
(* What the market-data provider returns, whether a channel is found and   *)
(* whether a send raises are inputs of the steps, chosen freely.           *)
(*                                                                         *)
(* Spec runs the callers one after the other; SpecOverlap lets one start   *)
(* while the other is suspended at a send.  The pure functions are applied *)
(* to inputs drawn by the initial state: compute_tmem_regime (SpecRegime), *)
(* compute_tmem_top_stocks and compute_mec_top_stocks (SpecRank), and the  *)
(* TMEM half of the rebalance with format_tmem_monthly_picks               *)
(* (SpecTmemReport).  SpecFormat calls a report formatter twice while the  *)
(* clock moves on; SpecMidnight lets midnight pass during a run of the     *)
(* command; SpecRetry is the scheduled task alone, day after day, under    *)
(* fairness; SpecGrace is the task firing once a day with no failure;      *)
(* SpecBothRanks applies both rankings to one table.                       *)
(*                                                                         *)
(* Of src/discord_bot.py, the variable guild holds pending_roles and the   *)
(* role handlers (SpecRoles) and the guild that setup_server provisions    *)
(* (SpecSetup).                                                            *)
(***************************************************************************)
EXTENDS Integers, FiniteSets, Sequences, TLC

(* ------------------------------ bounds --------------------------------- *)

\* The clock runs over the year-months 0 .. MaxYm (0 is a January).
MaxYm == 1

\* Every month is cut after this many days (days 5.. behave like day 4).
DaysPerMonth == 4

\* The counters of delivered reports saturate at this value.
PubCap == 2

\* compute_tmem_regime is applied to price series of up to this many rows.
MaxLen == 4

\* compute_tmem_regime is applied with the windows 1 .. MaxW.
MaxW == 3

\* The ranking functions are applied to universe tables of up to this many
\* ticker columns.
MaxTickers == 2

\* The ranking functions are applied with n_holdings in 0 .. MaxTop.
MaxTop == 2

(* ------------------------------ the clock ------------------------------ *)

Procs == {"task", "cmd"}

\* datetime.now(): year-month, day of month, weekday (0 = Monday .. 6 = Sunday).
ClockValues ==
    [ym : 0..MaxYm, day : 1..DaysPerMonth, wd : 0..6]

NoClock == [ym |-> -1, day |-> 0, wd |-> 0]

\* The value None of a marker.
None == -1

\* strftime("%Y-%m-%d"): the date as one value, year-month before day.
DateStr(t) == t.ym * 100 + t.day

\* strftime("%Y-%m"): the year-month.
MonthKey(t) == t.ym

\* datetime.month, 1 .. 12.
MonthOf(t) == (t.ym % 12) + 1

NextDay(t) ==
    IF t.day < DaysPerMonth
    THEN [ym |-> t.ym, day |-> t.day + 1, wd |-> (t.wd + 1) % 7]
    ELSE [ym |-> t.ym + 1, day |-> 1, wd |-> (t.wd + 1) % 7]

Bump(n) == IF n < PubCap THEN n + 1 ELSE PubCap

(* --------------------------- inputs of a run --------------------------- *)

\* fetch_spy_data: the download raises; a frame without price columns; a
\* frame with the columns and no rows; fewer than 200 rows; 200 rows or more.
SpyOutcomes == {"raise", "nocols", "empty", "short", "ok"}

\* fetch_universe_data: raises; two empty frames; a price and a volume table.
UniverseOutcomes == {"raise", "empty", "ok"}

(* ------------------------------- state --------------------------------- *)

VARIABLES
    clock,             \* the system clock
    last_daily_run,    \* SignalBot._last_daily_run: None or a DateStr
    last_monthly_run,  \* SignalBot._last_monthly_run: None or a MonthKey
    pc,                \* where each caller's run_all_signals stands
    run,               \* each caller's local variables and what its run did
    taskFired,         \* daily_signal_task has fired on the current date
    dailyPubToday,     \* daily reports delivered while the date is clock's
    tmemPubMonth,      \* TMEM rebalance reports delivered in clock's month
    mecPubMonth,       \* MEC rebalance reports delivered in clock's month
    markedBy,          \* the caller whose run last set each marker
    call,              \* a call of one of the pure functions and its result
    guild              \* discord_bot.py: the guild, pending_roles, handlers

vars ==
    <<clock, last_daily_run, last_monthly_run, pc, run, taskFired,
      dailyPubToday, tmemPubMonth, mecPubMonth, markedBy, call, guild>>

\* The locals of a run (now, today, mtoday) and the record of what it did.
\*   daily:   none | skip | empty | raised | nochan | sent | send_raised
\*   monthly: none | notdue | skip | late | empty | raised | tmem_send_raised
\*            | mec_raised | mec_send_raised | marked
NoRun ==
    [now |-> NoClock, today |-> NoClock, mtoday |-> NoClock,
     pre |-> <<None, None>>,
     preD |-> <<None, None>>, preM |-> <<None, None>>,
     daily |-> "none", monthly |-> "none",
     spy |-> "none", quarter |-> FALSE, tmemNoChan |-> FALSE,
     dfetched |-> FALSE, mfetched |-> FALSE,
     dailySent |-> FALSE, tmemSent |-> FALSE, mecSent |-> FALSE]

\* No call of a pure function is under way.
NoCall == [op |-> "none"]

\* The guild and the role handlers of discord_bot.py are left out.
NoGuild == [op |-> "none"]

\* SignalBot after its construction, at any date of the first month.
BotInit ==
    /\ clock \in {t \in ClockValues : t.ym = 0}
    /\ last_daily_run = None
    /\ last_monthly_run = None
    /\ pc = [p \in Procs |-> "idle"]
    /\ run = [p \in Procs |-> NoRun]
    /\ taskFired = FALSE
    /\ dailyPubToday = 0
    /\ tmemPubMonth = 0
    /\ mecPubMonth = 0
    /\ markedBy = [daily |-> "none", monthly |-> "none"]

SchedInit == BotInit /\ guild = NoGuild

Init == SchedInit /\ call = NoCall

AllIdle == \A p \in Procs : pc[p] = "idle"

\* The outcomes of a daily and of a monthly run that are failures: an empty
\* fetch, an exception before the send, an exception of a send.
DailyFailures == {"empty", "raised", "send_raised"}

MonthlyFailures ==
    {"empty", "raised", "tmem_send_raised", "mec_raised", "mec_send_raised"}

(* --------------------------- the code's tests -------------------------- *)

\* A variant of IsWeekday that counts Saturday as a trading day (<= for <).
IsWeekday_SaturdayToo(now) == now.wd <= 5

\* run_all_signals: now.weekday() < 5
IsWeekday(now) == now.wd < 5

\* run_all_signals: now.day <= 3 and now.weekday() < 5
MonthlyDue(now) == now.day <= 3 /\ now.wd < 5

\* A variant of DailyAlreadyRan that also takes the monthly marker for a
\* reason to skip the daily run.
DailyAlreadyRan_EitherMarker(today) ==
    last_daily_run = DateStr(today) \/ last_monthly_run = MonthKey(today)

\* A variant of DailyAlreadyRan without the guard: the run never skips.
DailyAlreadyRan_NoGuard(today) == FALSE

\* run_daily_tmem_signal: self._last_daily_run == today
DailyAlreadyRan(today) == last_daily_run = DateStr(today)

\* A variant of MonthlyAlreadyRan without the guard: the run never skips.
MonthlyAlreadyRan_NoGuard(today) == FALSE

\* run_monthly_rebalance: self._last_monthly_run == month_key
MonthlyAlreadyRan(today) == last_monthly_run = MonthKey(today)

\* A variant of PastGrace with the window one day short (> 2 for > 3).
PastGrace_TwoDays(today) == today.day > 2

\* run_monthly_rebalance: today.day > 3
PastGrace(today) == today.day > 3

\* A variant of is_tmem_quarter that holds in every month.
is_tmem_quarter_EveryMonth(today) == TRUE

\* run_monthly_rebalance: today.month in [1, 4, 7, 10]
is_tmem_quarter(today) == MonthOf(today) \in {1, 4, 7, 10}

(* ------------------------------ the clock ------------------------------ *)

\* Midnight passes.
AdvanceClock ==
    /\ NextDay(clock).ym <= MaxYm
    /\ clock' = NextDay(clock)
    /\ taskFired' = FALSE
    /\ dailyPubToday' = 0
    /\ tmemPubMonth' = IF NextDay(clock).ym = clock.ym THEN tmemPubMonth ELSE 0
    /\ mecPubMonth' = IF NextDay(clock).ym = clock.ym THEN mecPubMonth ELSE 0
    /\ UNCHANGED <<last_daily_run, last_monthly_run, pc, run, markedBy>>


(* --------------------------- run_all_signals --------------------------- *)

\* run_all_signals up to its first call: now = datetime.now(); on a weekday
\* run_daily_tmem_signal is called, and the test for the monthly run follows.
run_all_signals(p) ==
    /\ pc[p] = "idle"
    /\ run' = [run EXCEPT ![p] =
                 [NoRun EXCEPT !.now = clock,
                               !.pre = <<last_daily_run, last_monthly_run>>]]
    /\ pc' = [pc EXCEPT ![p] = IF IsWeekday(clock) THEN "daily" ELSE "gate"]
    /\ UNCHANGED <<clock, last_daily_run, last_monthly_run,
                   dailyPubToday, tmemPubMonth, mecPubMonth, markedBy>>

\* daily_signal_task: the loop fires once a day and awaits run_all_signals.
daily_signal_task ==
    /\ ~taskFired
    /\ taskFired' = TRUE
    /\ run_all_signals("task")

\* cmd_force_signals: the admin command 'signals' awaits run_all_signals.
cmd_force_signals ==
    /\ UNCHANGED taskFired
    /\ run_all_signals("cmd")

(* ------------------------ run_daily_tmem_signal ------------------------ *)

\* A variant of DailyFetch for which no frame is long enough.
DailyFetch_NeverOk(spy) ==
    IF spy \in {"nocols", "empty"} THEN "empty" ELSE "raised"

\* What the daily run does with the SPY frame before it looks for the channel:
\* spy_data.empty returns, a raise or a series under 200 rows is caught.
DailyFetch(spy) ==
    CASE spy = "raise" -> "raised"
      [] spy \in {"nocols", "empty"} -> "empty"
      [] spy = "short" -> "raised"
      [] OTHER -> "ok"

\* self._last_daily_run after the branch 'if channel: ... else: ...' when no
\* channel was found: the assignment follows the branch.
DailyMarkerNoChannel(today) == DateStr(today)

\* A variant of DailyMarkerAfterSend that never records the run.
DailyMarkerAfterSend_Never(ok, today) == last_daily_run

\* self._last_daily_run after 'await channel.send(msg)': set when the send
\* returned, left alone when it raised.
DailyMarkerAfterSend(ok, today) ==
    IF ok THEN DateStr(today) ELSE last_daily_run

\* A variant of AfterDailyRun in which an exception of the daily run is not
\* caught: it leaves run_all_signals before the test for the monthly run.
AfterDailyRun_Propagates(outcome) ==
    IF outcome \in {"raised", "send_raised"} THEN "done" ELSE "gate"

\* Where run_all_signals stands when run_daily_tmem_signal is over: the run
\* returns, or 'except Exception' logs what was raised and the run returns
\* too; either way the test for the monthly run is next.
AfterDailyRun(outcome) == "gate"

\* run_daily_tmem_signal from its first line to the await of the send, or to
\* its return when it gets no further.
run_daily_tmem_signal(p) ==
    /\ pc[p] = "daily"
    /\ LET r0 == [run[p] EXCEPT !.today = clock,
                                !.preD = <<last_daily_run, last_monthly_run>>]
           r1 == [r0 EXCEPT !.dfetched = TRUE]
       IN  IF DailyAlreadyRan(clock)
           THEN /\ run' = [run EXCEPT ![p] = [r0 EXCEPT !.daily = "skip"]]
                /\ pc' = [pc EXCEPT ![p] = AfterDailyRun("skip")]
                /\ UNCHANGED last_daily_run
           ELSE \E spy \in SpyOutcomes, chan \in BOOLEAN :
                IF DailyFetch(spy) # "ok"
                THEN /\ run' = [run EXCEPT ![p] = [r1 EXCEPT !.daily = DailyFetch(spy)]]
                     /\ pc' = [pc EXCEPT ![p] = AfterDailyRun(DailyFetch(spy))]
                     /\ UNCHANGED last_daily_run
                ELSE IF chan
                THEN /\ run' = [run EXCEPT ![p] = r1]
                     /\ pc' = [pc EXCEPT ![p] = "daily_send"]
                     /\ UNCHANGED last_daily_run
                ELSE /\ run' = [run EXCEPT ![p] = [r1 EXCEPT !.daily = "nochan"]]
                     /\ pc' = [pc EXCEPT ![p] = AfterDailyRun("nochan")]
                     /\ last_daily_run' = DailyMarkerNoChannel(clock)
    /\ markedBy' = [markedBy EXCEPT !.daily =
                       IF last_daily_run' # last_daily_run THEN p ELSE @]
    /\ UNCHANGED <<clock, last_monthly_run, taskFired,
                   dailyPubToday, tmemPubMonth, mecPubMonth>>

\* 'await channel.send(msg)' of the daily run returns or raises; then the
\* marker is set (or the exception is logged) and the daily run returns.
DailySend(p) ==
    /\ pc[p] = "daily_send"
    /\ \E ok \in BOOLEAN :
        /\ run' = [run EXCEPT ![p] =
                     [@ EXCEPT !.daily = IF ok THEN "sent" ELSE "send_raised",
                               !.dailySent = ok]]
        /\ dailyPubToday' = IF ok THEN Bump(dailyPubToday) ELSE dailyPubToday
        /\ last_daily_run' = DailyMarkerAfterSend(ok, run[p].today)
        /\ pc' = [pc EXCEPT ![p] = AfterDailyRun(IF ok THEN "sent" ELSE "send_raised")]
    /\ markedBy' = [markedBy EXCEPT !.daily =
                       IF last_daily_run' # last_daily_run THEN p ELSE @]
    /\ UNCHANGED <<clock, last_monthly_run, taskFired, tmemPubMonth, mecPubMonth>>


(* ------------------------ run_monthly_rebalance ------------------------ *)

\* What the monthly run does with the fetched data before its first send, in
\* the order of the code: either download raises; prices.empty returns; a SPY
\* frame with neither 'Adj Close' nor 'Close' raises KeyError; in a quarter
\* month compute_tmem_regime raises on fewer than 200 rows and, when the
\* regime is risk-on, compute_tmem_top_stocks may raise.
MonthlyFetch(spy, univ, quarter, riskOn, tmemRankOk) ==
    CASE spy = "raise" -> "raised"
      [] univ = "raise" -> "raised"
      [] univ = "empty" -> "empty"
      [] spy = "nocols" -> "raised"
      [] quarter /\ spy \in {"empty", "short"} -> "raised"
      [] quarter /\ riskOn /\ ~tmemRankOk -> "raised"
      [] OTHER -> "ok"

\* self._last_monthly_run when the MEC channel was not found: the assignment
\* follows the branch 'if mec_channel: ... else: ...'.
MonthlyMarkerNoChannel(mtoday) == MonthKey(mtoday)

\* A variant of MonthlyMarkerAfterSend that sets the marker before the send
\* is known to have returned.
MonthlyMarkerAfterSend_Early(ok, mtoday) == MonthKey(mtoday)

\* self._last_monthly_run after 'await mec_channel.send(mec_msg)': set when
\* the send returned, left alone when it raised.
MonthlyMarkerAfterSend(ok, mtoday) ==
    IF ok THEN MonthKey(mtoday) ELSE last_monthly_run

\* The MEC half of the monthly run, from compute_mec_top_stocks to the await
\* of the MEC send, or to the end of the run when no channel is found.
\* r is the run's record so far.
MecStage(p, r, rankOk, chan) ==
    IF ~rankOk
    THEN /\ run' = [run EXCEPT ![p] = [r EXCEPT !.monthly = "mec_raised"]]
         /\ pc' = [pc EXCEPT ![p] = "done"]
         /\ UNCHANGED last_monthly_run
    ELSE IF chan
    THEN /\ run' = [run EXCEPT ![p] = r]
         /\ pc' = [pc EXCEPT ![p] = "mec_send"]
         /\ UNCHANGED last_monthly_run
    ELSE /\ run' = [run EXCEPT ![p] = [r EXCEPT !.monthly = "marked"]]
         /\ pc' = [pc EXCEPT ![p] = "done"]
         /\ last_monthly_run' = MonthlyMarkerNoChannel(r.mtoday)

\* The rest of run_all_signals after the daily run: the test
\* 'now.day <= 3 and now.weekday() < 5' on its own now, then
\* run_monthly_rebalance from its first line to its first await, or to its
\* return when it gets no further.
run_monthly_rebalance(p) ==
    /\ pc[p] = "gate"
    /\ LET r0 == [run[p] EXCEPT !.mtoday = clock,
                                !.preM = <<last_daily_run, last_monthly_run>>]
           q  == is_tmem_quarter(clock)
       IN  IF ~MonthlyDue(run[p].now)
           THEN /\ run' = [run EXCEPT ![p] = [@ EXCEPT !.monthly = "notdue"]]
                /\ pc' = [pc EXCEPT ![p] = "done"]
                /\ UNCHANGED last_monthly_run
           ELSE IF MonthlyAlreadyRan(clock)
           THEN /\ run' = [run EXCEPT ![p] = [r0 EXCEPT !.monthly = "skip"]]
                /\ pc' = [pc EXCEPT ![p] = "done"]
                /\ UNCHANGED last_monthly_run
           ELSE IF PastGrace(clock)
           THEN /\ run' = [run EXCEPT ![p] = [r0 EXCEPT !.monthly = "late"]]
                /\ pc' = [pc EXCEPT ![p] = "done"]
                /\ UNCHANGED last_monthly_run
           ELSE \E spy \in SpyOutcomes, univ \in UniverseOutcomes,
                   riskOn, tmemRankOk, tmemChan, mecRankOk, mecChan \in BOOLEAN :
                LET r1 == [r0 EXCEPT !.mfetched = TRUE, !.spy = spy, !.quarter = q]
                    f  == MonthlyFetch(spy, univ, q, riskOn, tmemRankOk)
                IN  IF f # "ok"
                    THEN /\ run' = [run EXCEPT ![p] = [r1 EXCEPT !.monthly = f]]
                         /\ pc' = [pc EXCEPT ![p] = "done"]
                         /\ UNCHANGED last_monthly_run
                    ELSE IF q /\ tmemChan
                    THEN /\ run' = [run EXCEPT ![p] = r1]
                         /\ pc' = [pc EXCEPT ![p] = "tmem_send"]
                         /\ UNCHANGED last_monthly_run
                    ELSE MecStage(p, [r1 EXCEPT !.tmemNoChan = q],
                                  mecRankOk, mecChan)
    /\ markedBy' = [markedBy EXCEPT !.monthly =
                       IF last_monthly_run' # last_monthly_run THEN p ELSE @]
    /\ UNCHANGED <<clock, last_daily_run, taskFired,
                   dailyPubToday, tmemPubMonth, mecPubMonth>>

\* 'await tmem_channel.send(tmem_msg)' returns or raises; when it returned,
\* the run goes on with the MEC half.
TmemSend(p) ==
    /\ pc[p] = "tmem_send"
    /\ \E ok, mecRankOk, mecChan \in BOOLEAN :
        IF ok
        THEN /\ tmemPubMonth' = Bump(tmemPubMonth)
             /\ MecStage(p, [run[p] EXCEPT !.tmemSent = TRUE], mecRankOk, mecChan)
        ELSE /\ run' = [run EXCEPT ![p] = [@ EXCEPT !.monthly = "tmem_send_raised"]]
             /\ pc' = [pc EXCEPT ![p] = "done"]
             /\ UNCHANGED <<tmemPubMonth, last_monthly_run>>
    /\ markedBy' = [markedBy EXCEPT !.monthly =
                       IF last_monthly_run' # last_monthly_run THEN p ELSE @]
    /\ UNCHANGED <<clock, last_daily_run, taskFired, dailyPubToday, mecPubMonth>>

\* 'await mec_channel.send(mec_msg)' returns or raises; then the marker is
\* set (or the exception is logged) and the monthly run returns.
MecSend(p) ==
    /\ pc[p] = "mec_send"
    /\ \E ok \in BOOLEAN :
        /\ run' = [run EXCEPT ![p] =
                     [@ EXCEPT !.monthly = IF ok THEN "marked" ELSE "mec_send_raised",
                               !.mecSent = ok]]
        /\ mecPubMonth' = IF ok THEN Bump(mecPubMonth) ELSE mecPubMonth
        /\ last_monthly_run' = MonthlyMarkerAfterSend(ok, run[p].mtoday)
    /\ pc' = [pc EXCEPT ![p] = "done"]
    /\ markedBy' = [markedBy EXCEPT !.monthly =
                       IF last_monthly_run' # last_monthly_run THEN p ELSE @]
    /\ UNCHANGED <<clock, last_daily_run, taskFired, dailyPubToday, tmemPubMonth>>

\* run_all_signals returns to its caller: the task sleeps until its next
\* time, the command answers "Signals posted!".
Return(p) ==
    /\ pc[p] = "done"
    /\ pc' = [pc EXCEPT ![p] = "idle"]
    /\ run' = [run EXCEPT ![p] = NoRun]
    /\ UNCHANGED <<clock, last_daily_run, last_monthly_run, taskFired,
                   dailyPubToday, tmemPubMonth, mecPubMonth, markedBy>>

(* --------------------------- specification ----------------------------- *)

\* One run-check at a time, each within one calendar day: a run starts, and
\* midnight passes, only while no run is in progress.
Next ==
    \/ AllIdle /\ AdvanceClock /\ UNCHANGED <<call, guild>>
    \/ AllIdle /\ daily_signal_task /\ UNCHANGED <<call, guild>>
    \/ AllIdle /\ cmd_force_signals /\ UNCHANGED <<call, guild>>
    \/ \E p \in Procs : run_daily_tmem_signal(p) /\ UNCHANGED <<call, guild>>
    \/ \E p \in Procs : DailySend(p) /\ UNCHANGED <<call, guild>>
    \/ \E p \in Procs : run_monthly_rebalance(p) /\ UNCHANGED <<call, guild>>
    \/ \E p \in Procs : TmemSend(p) /\ UNCHANGED <<call, guild>>
    \/ \E p \in Procs : MecSend(p) /\ UNCHANGED <<call, guild>>
    \/ \E p \in Procs : Return(p) /\ UNCHANGED <<call, guild>>

Spec == Init /\ [][Next]_vars

\* The event loop runs one coroutine at a time and switches only where one
\* awaits: caller p is suspended at an 'await channel.send', or is not running.
AtAwait(p) == pc[p] \in {"idle", "daily_send", "tmem_send", "mec_send"}

\* The event loop can run a step of p: every other caller is at an await.
Scheduled(p) == \A q \in Procs \ {p} : AtAwait(q)

\* Cooperative scheduling as the code has it: the 'signals' command and the
\* 14:30 task each start run_all_signals whenever the event loop gets to them,
\* also while the other caller's run is suspended at a send.  The date stays
\* the one of the initial state: the runs of one day.
NextOverlap ==
    \/ Scheduled("task") /\ daily_signal_task /\ UNCHANGED <<call, guild>>
    \/ Scheduled("cmd") /\ cmd_force_signals /\ UNCHANGED <<call, guild>>
    \/ \E p \in Procs : Scheduled(p) /\ run_daily_tmem_signal(p) /\ UNCHANGED <<call, guild>>
    \/ \E p \in Procs : Scheduled(p) /\ DailySend(p) /\ UNCHANGED <<call, guild>>
    \/ \E p \in Procs : Scheduled(p) /\ run_monthly_rebalance(p) /\ UNCHANGED <<call, guild>>
    \/ \E p \in Procs : Scheduled(p) /\ TmemSend(p) /\ UNCHANGED <<call, guild>>
    \/ \E p \in Procs : Scheduled(p) /\ MecSend(p) /\ UNCHANGED <<call, guild>>
    \/ \E p \in Procs : Scheduled(p) /\ Return(p) /\ UNCHANGED <<call, guild>>

SpecOverlap == Init /\ [][NextOverlap]_vars

TypeOK ==
    /\ clock \in ClockValues
    /\ last_daily_run \in {None} \cup {DateStr(t) : t \in ClockValues}
    /\ last_monthly_run \in {None} \cup (0..MaxYm)
    /\ pc \in [Procs -> {"idle", "daily", "daily_send", "gate",
                         "tmem_send", "mec_send", "done"}]
    /\ taskFired \in BOOLEAN
    /\ dailyPubToday \in 0..PubCap
    /\ tmemPubMonth \in 0..PubCap
    /\ mecPubMonth \in 0..PubCap
    /\ markedBy \in [daily : {"none"} \cup Procs, monthly : {"none"} \cup Procs]


(* ------------------------ midnight during a run ----------------------- *)

\* The runs of the 'signals' command, given at any time of the day.  The
\* clock does not wait for a run to end: midnight may pass between any two
\* steps of a run, that is between the three readings of datetime.now()
\* (run_all_signals, run_daily_tmem_signal, run_monthly_rebalance) and during
\* the downloads and the sends.
NextMidnight ==
    \/ AdvanceClock /\ UNCHANGED <<call, guild>>
    \/ cmd_force_signals /\ UNCHANGED <<call, guild>>
    \/ run_daily_tmem_signal("cmd") /\ UNCHANGED <<call, guild>>
    \/ DailySend("cmd") /\ UNCHANGED <<call, guild>>
    \/ run_monthly_rebalance("cmd") /\ UNCHANGED <<call, guild>>
    \/ TmemSend("cmd") /\ UNCHANGED <<call, guild>>
    \/ MecSend("cmd") /\ UNCHANGED <<call, guild>>
    \/ Return("cmd") /\ UNCHANGED <<call, guild>>

SpecMidnight == Init /\ [][NextMidnight]_vars

(* ------------------ one tick a day and nothing fails ------------------- *)

\* The bot is started on the 1st of a month, on any day of the week.
InitGrace == Init /\ clock.day = 1

\* The scheduled task alone, firing once on every calendar day, in a world
\* where no download comes back empty and nothing raises (a channel may
\* still be missing).
NextGrace ==
    \/ AllIdle /\ taskFired /\ AdvanceClock /\ UNCHANGED <<call, guild>>
    \/ AllIdle /\ daily_signal_task /\ UNCHANGED <<call, guild>>
    \/ /\ run_daily_tmem_signal("task")
       /\ run'["task"].daily \notin DailyFailures
       /\ UNCHANGED <<call, guild>>
    \/ /\ DailySend("task")
       /\ run'["task"].daily \notin DailyFailures
       /\ UNCHANGED <<call, guild>>
    \/ /\ run_monthly_rebalance("task")
       /\ run'["task"].monthly \notin MonthlyFailures
       /\ UNCHANGED <<call, guild>>
    \/ /\ TmemSend("task")
       /\ run'["task"].monthly \notin MonthlyFailures
       /\ UNCHANGED <<call, guild>>
    \/ /\ MecSend("task")
       /\ run'["task"].monthly \notin MonthlyFailures
       /\ UNCHANGED <<call, guild>>
    \/ Return("task") /\ UNCHANGED <<call, guild>>

SpecGrace == InitGrace /\ [][NextGrace]_vars

(* ----------------------- the scheduled task, fairly -------------------- *)

\* The calendar of the model starts over after its last day.  The markers are
\* only ever compared with the current date and month, and the dates of the
\* calendar that ended do not come back: a marker holding one of them is
\* equal to no later date, as None is.
NewCalendar ==
    /\ NextDay(clock).ym > MaxYm
    /\ clock' = [ym |-> 0, day |-> 1, wd |-> (clock.wd + 1) % 7]
    /\ last_daily_run' = None
    /\ last_monthly_run' = None
    /\ taskFired' = FALSE
    /\ dailyPubToday' = 0
    /\ tmemPubMonth' = 0
    /\ mecPubMonth' = 0
    /\ markedBy' = [daily |-> "none", monthly |-> "none"]
    /\ UNCHANGED <<pc, run>>

\* In this specification call keeps what has happened to the daily cycle:
\* failed, a daily run has failed and no daily report was delivered since;
\* recovered, the last report delivered came after such a failure.
NoFailure == [op |-> "daily_cycle", failed |-> FALSE, recovered |-> FALSE]

Remember ==
    /\ call' =
        IF run'["task"].daily \in DailyFailures /\ run["task"].daily = "none"
        THEN [call EXCEPT !.failed = TRUE, !.recovered = FALSE]
        ELSE IF run'["task"].dailySent /\ ~run["task"].dailySent
        THEN [call EXCEPT !.failed = FALSE, !.recovered = call.failed]
        ELSE call
    /\ UNCHANGED guild

InitRetry == SchedInit /\ call = NoFailure

\* Midnight passes after the task has fired and its run has ended: the loop
\* fires on every day.
Tick ==
    \/ AllIdle /\ taskFired /\ AdvanceClock /\ UNCHANGED <<call, guild>>
    \/ AllIdle /\ taskFired /\ NewCalendar /\ UNCHANGED <<call, guild>>

\* The loop of daily_signal_task fires at 14:30.
TaskFires == AllIdle /\ daily_signal_task /\ UNCHANGED <<call, guild>>

\* The daily run of the task gets its frame, finds the channel and reaches
\* the send; the send returns.
DailyFetchSucceeds ==
    run_daily_tmem_signal("task") /\ pc'["task"] = "daily_send" /\ Remember

DailySendSucceeds ==
    DailySend("task") /\ run'["task"].dailySent /\ Remember

\* The scheduled task alone, day after day without end.
NextRetry ==
    \/ AllIdle /\ taskFired /\ AdvanceClock /\ UNCHANGED <<call, guild>>
    \/ AllIdle /\ taskFired /\ NewCalendar /\ UNCHANGED <<call, guild>>
    \/ AllIdle /\ daily_signal_task /\ UNCHANGED <<call, guild>>
    \/ run_daily_tmem_signal("task") /\ Remember
    \/ DailySend("task") /\ Remember
    \/ run_monthly_rebalance("task") /\ UNCHANGED <<call, guild>>
    \/ TmemSend("task") /\ UNCHANGED <<call, guild>>
    \/ MecSend("task") /\ UNCHANGED <<call, guild>>
    \/ Return("task") /\ UNCHANGED <<call, guild>>

\* tasks.loop(time=14:30) fires the task every day and the event loop runs
\* every step of a run to its end (weak fairness); the download and the send
\* succeed again and again when they are tried again and again (strong
\* fairness).
SpecRetry ==
    /\ InitRetry
    /\ [][NextRetry]_vars
    /\ WF_vars(NextRetry)
    /\ WF_vars(Tick)
    /\ WF_vars(TaskFires)
    /\ SF_vars(DailyFetchSucceeds)
    /\ SF_vars(DailySendSucceeds)

(* ------------------------- compute_tmem_regime ------------------------- *)

\* Prices are held in thousandths of a dollar, so that a price need not be a
\* whole number of cents: $90.00, $100.00, $100.003, $100.017.
PriceValues == {90000, 100000, 100003, 100017}

\* The series of at most n prices.
SeriesUpTo(n) == UNION {[1..k -> PriceValues] : k \in 0..n}

RECURSIVE SumSeq(_)
SumSeq(s) == IF s = <<>> THEN 0 ELSE Head(s) + SumSeq(Tail(s))

\* The last w values of a series of at least w values.
LastRows(s, w) == SubSeq(s, Len(s) - w + 1, Len(s))

\* n / d rounded to the nearest integer, a tie to the even one (d > 0).
RoundDiv(n, d) ==
    LET q == n \div d
        r == n % d
    IN  IF 2 * r < d THEN q
        ELSE IF 2 * r > d THEN q + 1
        ELSE IF q % 2 = 0 THEN q ELSE q + 1

\* round(x, 2) of the amount n / d thousandths of a dollar: a whole number of
\* cents, written in thousandths.
RoundCents(n, d) == 10 * RoundDiv(n, 10 * d)

\* A variant of TooShort that also turns away a series of exactly the window.
TooShort_OrEqual(prices, sma_lookback) == Len(prices) <= sma_lookback

\* compute_tmem_regime: len(spy_prices) < sma_lookback
TooShort(prices, sma_lookback) == Len(prices) < sma_lookback

\* A variant of IsRiskOn that is not strict (>= for >).
IsRiskOn_OrEqual(current_price, window_sum, w) == current_price * w >= window_sum

\* compute_tmem_regime: current_price > current_sma, where current_sma is
\* window_sum / w.
IsRiskOn(current_price, window_sum, w) == current_price * w > window_sum

\* compute_tmem_regime.  pct_diff is in hundredths of a percent.
compute_tmem_regime(spy_prices, sma_lookback) ==
    IF TooShort(spy_prices, sma_lookback)
    THEN [raised |-> "ValueError"]
    ELSE LET current_price == spy_prices[Len(spy_prices)]
             window_sum == SumSeq(LastRows(spy_prices, sma_lookback))
         IN  [raised |-> "none",
              is_risk_on |-> IsRiskOn(current_price, window_sum, sma_lookback),
              spy_price |-> RoundCents(current_price, 1),
              sma_value |-> RoundCents(window_sum, sma_lookback),
              pct_diff |-> RoundDiv((current_price * sma_lookback - window_sum) * 10000,
                                    window_sum)]

\* The scheduler's variables, which a call of a pure function leaves alone.
sched ==
    <<clock, last_daily_run, last_monthly_run, pc, run, taskFired,
      dailyPubToday, tmemPubMonth, mecPubMonth, markedBy>>

\* The bot at rest on the first day, while a pure function is called.
AtRest == SchedInit /\ clock = [ym |-> 0, day |-> 1, wd |-> 0]

\* A call of compute_tmem_regime is about to be made with any series and any
\* window.
InitRegime ==
    /\ AtRest
    /\ call \in [op : {"compute_tmem_regime"}, prices : SeriesUpTo(MaxLen),
                  window : 1..MaxW, returned : {FALSE}, out : {NoCall}]

\* The call is made and returns or raises.
CallRegime ==
    /\ call.op = "compute_tmem_regime" /\ ~call.returned
    /\ call' = [call EXCEPT !.returned = TRUE,
                            !.out = compute_tmem_regime(call.prices, call.window)]
    /\ UNCHANGED <<sched, guild>>

SpecRegime == InitRegime /\ [][CallRegime]_vars

(* ----------- compute_tmem_top_stocks, compute_mec_top_stocks ----------- *)

\* The row offsets of the momentum definitions: prices.shift(21), shift(252),
\* shift(126), shift(63); the window of the average dollar volume.
Shift1m == 21
Shift12m == 252
Shift6m == 126
Shift3m == 63
AdvWindow == 60

\* current_prices >= 5.0, in thousandths of a dollar.
MinPrice == 5000

\* adv_60 >= 20_000_000, in dollars.
MinAdv == 20000000

\* Volumes are held in units of 10,000 shares, so that price times volume is
\* in units of 10 dollars.
DollarsPerUnit == 10

\* A missing cell of a table.
NaN == -1

\* A column of the universe table, given by the number of missing rows at its
\* start (lead) and at its end (trail), its price up to the row 252 before the
\* last, up to the rows 126, 63 and 21 before the last, and after that, and
\* its daily volume.
Col(name, lead, trail, p12, p6, p3, p1, p0, vol) ==
    [name |-> name, lead |-> lead, trail |-> trail,
     p12 |-> p12, p6 |-> p6, p3 |-> p3, p1 |-> p1, p0 |-> p0, vol |-> vol]

\* The columns the tables are made of.
\*   A   +10%, $11, $22M a day, 6-month momentum positive
\*   B   +5%, 6-month and 3-month momentum exactly 0
\*   C   +100%, price $2.00
\*   D   +10% as A, 6-month momentum negative, 3-month positive
\*   E   +10.004%, reported as A's 10.0
\*   F   +25%, price exactly $5.00, exactly $20M a day
\*   G   +25%, price $4.999
\*   H   +25%, $19.9M a day
\*   S   +50%, no price 252 rows before the last (252 rows of history)
\*   T   +50%, $15, $30M a day, last row missing
\*   Z   +60%, 6-month and 3-month momentum negative
Columns ==
    { Col("A", 0, 0, 10000, 10500, 11200, 11000, 11000, 200),
      Col("B", 0, 0, 10000, 10500, 10500, 10500, 10500, 200),
      Col("C", 0, 0, 1000, 1500, 1800, 2000, 2000, 2000),
      Col("D", 0, 0, 20000, 23000, 21000, 22000, 22000, 100),
      Col("E", 0, 0, 25000, 27000, 27000, 27501, 27501, 100),
      Col("F", 0, 0, 4000, 4500, 4800, 5000, 5000, 400),
      Col("G", 0, 0, 4000, 4500, 4800, 5000, 4999, 500),
      Col("H", 0, 0, 8000, 9000, 9500, 10000, 10000, 199),
      Col("S", 1, 0, 10000, 12000, 14000, 15000, 15000, 200),
      Col("T", 0, 1, 10000, 12000, 14000, 15000, 15000, 200),
      Col("Z", 0, 0, 10000, 17000, 16500, 16000, 16000, 200) }

\* The numbers of rows of a table: none, too few for any momentum, one more
\* than the longest shift, and two more.
RowCounts == {0, 100, 253, 254}

\* The tables of up to n columns with distinct tickers.
TablesUpTo(n) ==
    UNION {{t \in [1..k -> Columns] : \A i, j \in 1..k : t[i] = t[j] => i = j}
              : k \in 0..n}

\* The cell of column c at row r of a table of nrows rows; NaN outside the
\* table, as a shift produces it.
Cell(c, nrows, r) ==
    IF r < 1 \/ r > nrows THEN NaN
    ELSE IF r <= c.lead \/ r > nrows - c.trail THEN NaN
    ELSE IF r <= nrows - Shift12m THEN c.p12
    ELSE IF r <= nrows - Shift6m THEN c.p6
    ELSE IF r <= nrows - Shift3m THEN c.p3
    ELSE IF r <= nrows - Shift1m THEN c.p1
    ELSE c.p0

\* prices.shift(k).iloc[-1]
Shifted(c, nrows, k) == Cell(c, nrows, nrows - k)

\* A variant of MomentumDefined that keeps every column, as if a missing
\* momentum were a number.
MomentumDefined_Always(c, nrows) == TRUE

\* momentum.iloc[-1].dropna(): the columns whose last momentum is a number.
MomentumDefined(c, nrows) ==
    Shifted(c, nrows, Shift1m) # NaN /\ Shifted(c, nrows, Shift12m) # NaN

\* A variant of price_filter that is strict (> for >=).
price_filter_Strict(c, nrows) ==
    Cell(c, nrows, nrows) # NaN /\ Cell(c, nrows, nrows) > MinPrice

\* price_filter: current_prices >= 5.0; a missing price compares False.
price_filter(c, nrows) ==
    Cell(c, nrows, nrows) # NaN /\ Cell(c, nrows, nrows) >= MinPrice

\* The sum of price * volume over the rows from .. to of column c.
RECURSIVE DollarVolSum(_, _, _, _)
DollarVolSum(c, nrows, from, to) ==
    IF from > to THEN 0
    ELSE Cell(c, nrows, from) * c.vol + DollarVolSum(c, nrows, from + 1, to)

\* adv_filter: dollar_vol.rolling(60).mean().iloc[-1] >= 20_000_000; the mean
\* is NaN, and compares False, unless all 60 rows are there.
adv_filter(c, nrows) ==
    /\ nrows >= AdvWindow
    /\ \A r \in (nrows - AdvWindow + 1)..nrows : Cell(c, nrows, r) # NaN
    /\ DollarVolSum(c, nrows, nrows - AdvWindow + 1, nrows)
           >= (MinAdv \div DollarsPerUnit) * AdvWindow

\* eligible of compute_tmem_top_stocks: the indices of the columns that have a
\* momentum and pass both filters.
TmemEligible(table, nrows) ==
    {i \in 1..Len(table) :
        /\ MomentumDefined(table[i], nrows)
        /\ price_filter(table[i], nrows)
        /\ adv_filter(table[i], nrows)}

\* A variant of Confirmed that is not strict (>= 0 for > 0).
Confirmed_OrZero(c, nrows) ==
    LET price_1m == Shifted(c, nrows, Shift1m)
        price_6m == Shifted(c, nrows, Shift6m)
        price_3m == Shifted(c, nrows, Shift3m)
    IN  \/ price_1m # NaN /\ price_6m # NaN /\ price_1m >= price_6m
        \/ price_1m # NaN /\ price_3m # NaN /\ price_1m >= price_3m

\* (latest_6m > 0) | (latest_3m > 0), where mom_6m = price_1m / price_6m - 1
\* and mom_3m = price_1m / price_3m - 1; a missing momentum compares False.
Confirmed(c, nrows) ==
    LET price_1m == Shifted(c, nrows, Shift1m)
        price_6m == Shifted(c, nrows, Shift6m)
        price_3m == Shifted(c, nrows, Shift3m)
    IN  \/ price_1m # NaN /\ price_6m # NaN /\ price_1m > price_6m
        \/ price_1m # NaN /\ price_3m # NaN /\ price_1m > price_3m

\* earnings_confirmed of compute_mec_top_stocks.
MecEligible(table, nrows) ==
    {i \in TmemEligible(table, nrows) : Confirmed(table[i], nrows)}

\* A variant of ScoreGE for an ascending sort.
ScoreGE_Ascending(a, b) == a.p1 * b.p12 <= b.p1 * a.p12

\* The 12-1 momentum of column a is at least that of column b:
\* a.p1 / a.p12 - 1 >= b.p1 / b.p12 - 1, prices being positive.
ScoreGE(a, b) == a.p1 * b.p12 >= b.p1 * a.p12

\* sort_values(ascending=False) over the columns at the indices in E: every
\* order that is descending by momentum.  The default sort is not a stable
\* one, so tied columns come out in either order.
Rankings(table, E) ==
    {s \in [1..Cardinality(E) -> E] :
        /\ \A i, j \in 1..Cardinality(E) : s[i] = s[j] => i = j
        /\ \A i, j \in 1..Cardinality(E) :
              i < j => ScoreGE(table[s[i]], table[s[j]])}

\* scores.head(n_holdings), n_holdings >= 0.
HeadRows(s, n) == SubSeq(s, 1, IF n < Len(s) THEN n ELSE Len(s))

\* The result list built from top_n: rank from 1, ticker, momentum as a
\* percentage rounded to two decimals (here in hundredths of a percent) and
\* the current price rounded to cents.
ResultList(table, nrows, s) ==
    [k \in 1..Len(s) |->
        LET c == table[s[k]]
        IN  [rank |-> k,
             ticker |-> c.name,
             momentum |-> RoundDiv((c.p1 - c.p12) * 10000, c.p12),
             price |-> RoundCents(Cell(c, nrows, nrows), 1)]]

\* What a ranking function gives for the eligible columns E: momentum.iloc[-1]
\* raises on a table without rows; otherwise one result list for each order
\* the sort may produce.
TopStocks(table, nrows, E, n_holdings) ==
    IF nrows = 0
    THEN {[raised |-> "IndexError"]}
    ELSE {[raised |-> "none",
           picks |-> ResultList(table, nrows, HeadRows(s, n_holdings))]
             : s \in Rankings(table, E)}

compute_tmem_top_stocks(table, nrows, n_holdings) ==
    TopStocks(table, nrows, TmemEligible(table, nrows), n_holdings)

compute_mec_top_stocks(table, nrows, n_holdings) ==
    TopStocks(table, nrows, MecEligible(table, nrows), n_holdings)

\* A call of one of the ranking functions is about to be made with any table
\* and any n_holdings.
InitRank ==
    /\ AtRest
    /\ call \in [op : {"compute_tmem_top_stocks", "compute_mec_top_stocks"},
                  table : TablesUpTo(MaxTickers), nrows : RowCounts,
                  n_holdings : 0..MaxTop, returned : {FALSE}, out : {NoCall}]

CallTmemRank ==
    /\ call.op = "compute_tmem_top_stocks" /\ ~call.returned
    /\ \E out \in compute_tmem_top_stocks(call.table, call.nrows, call.n_holdings) :
          call' = [call EXCEPT !.returned = TRUE, !.out = out]
    /\ UNCHANGED <<sched, guild>>

CallMecRank ==
    /\ call.op = "compute_mec_top_stocks" /\ ~call.returned
    /\ \E out \in compute_mec_top_stocks(call.table, call.nrows, call.n_holdings) :
          call' = [call EXCEPT !.returned = TRUE, !.out = out]
    /\ UNCHANGED <<sched, guild>>

NextRank == CallTmemRank \/ CallMecRank

SpecRank == InitRank /\ [][NextRank]_vars

\* Both ranking functions are about to be applied to one universe table,
\* with n_holdings at least the number of its tickers.  The tables have up
\* to MaxTickers + 1 columns, so that two tied tickers and a third one fit.
InitBothRanks ==
    /\ AtRest
    /\ \E t \in TablesUpTo(MaxTickers + 1) :
          call \in [op : {"tmem_and_mec"}, table : {t}, nrows : RowCounts,
                    n_holdings : Len(t)..(MaxTickers + 1),
                    tmem_done : {FALSE}, tmem : {NoCall},
                    mec_done : {FALSE}, mec : {NoCall}]

\* The two functions sort the same series when every eligible ticker is
\* confirmed; the sort is a function of the series it is given, so it then
\* gives the order it gave before.
SameSeries ==
    MecEligible(call.table, call.nrows) = TmemEligible(call.table, call.nrows)

CallTmemOfBoth ==
    /\ call.op = "tmem_and_mec" /\ ~call.tmem_done
    /\ \E out \in compute_tmem_top_stocks(call.table, call.nrows, call.n_holdings) :
          /\ (call.mec_done /\ SameSeries) => out = call.mec
          /\ call' = [call EXCEPT !.tmem_done = TRUE, !.tmem = out]
    /\ UNCHANGED <<sched, guild>>

CallMecOfBoth ==
    /\ call.op = "tmem_and_mec" /\ ~call.mec_done
    /\ \E out \in compute_mec_top_stocks(call.table, call.nrows, call.n_holdings) :
          /\ (call.tmem_done /\ SameSeries) => out = call.tmem
          /\ call' = [call EXCEPT !.mec_done = TRUE, !.mec = out]
    /\ UNCHANGED <<sched, guild>>

NextBothRanks == CallTmemOfBoth \/ CallMecOfBoth

SpecBothRanks == InitBothRanks /\ [][NextBothRanks]_vars

(* ------------- the TMEM half of run_monthly_rebalance ------------------ *)

\* A variant of RendersTable that renders the table whatever the regime.
RendersTable_Always(regime) == TRUE

\* format_tmem_monthly_picks: the else branch of 'if not regime["is_risk_on"]'.
RendersTable(regime) == regime.is_risk_on

\* format_tmem_monthly_picks, as the parts of the text it returns: the month
\* in the title (read from the clock), the regime line, and then either the
\* defensive section ("100% defensive ... No equity positions this month") or
\* the table header with one row per pick and the rebalance instructions.
format_tmem_monthly_picks(regime, picks) ==
    [date |-> MonthKey(clock),
     status |-> IF regime.is_risk_on THEN "RISK-ON" ELSE "RISK-OFF",
     defensive |-> ~RendersTable(regime),
     header |-> RendersTable(regime),
     rows |-> IF RendersTable(regime)
              THEN [k \in 1..Len(picks) |->
                      <<picks[k].rank, picks[k].ticker,
                        picks[k].momentum, picks[k].price>>]
              ELSE <<>>]

\* No text.
NoMsg == [date |-> None, status |-> "none", defensive |-> FALSE,
          header |-> FALSE, rows |-> <<>>]

\* run_monthly_rebalance in a quarter month, from compute_tmem_regime to
\* format_tmem_monthly_picks: the regime may raise; the ranking is called, and
\* may raise, only when the regime is risk-on; tmem_picks stays [] otherwise.
\* 'ranked' tells whether compute_tmem_top_stocks was called.
tmem_rebalance(spy_prices, sma_lookback, table, nrows, n_holdings) ==
    LET regime == compute_tmem_regime(spy_prices, sma_lookback)
    IN  IF regime.raised # "none"
        THEN {[raised |-> regime.raised, ranked |-> FALSE,
               tmem_picks |-> <<>>, tmem_msg |-> NoMsg]}
        ELSE IF regime.is_risk_on
        THEN {IF r.raised # "none"
              THEN [raised |-> r.raised, ranked |-> TRUE,
                    tmem_picks |-> <<>>, tmem_msg |-> NoMsg]
              ELSE [raised |-> "none", ranked |-> TRUE,
                    tmem_picks |-> r.picks,
                    tmem_msg |-> format_tmem_monthly_picks(regime, r.picks)]
                : r \in compute_tmem_top_stocks(table, nrows, n_holdings)}
        ELSE {[raised |-> "none", ranked |-> FALSE,
               tmem_picks |-> <<>>,
               tmem_msg |-> format_tmem_monthly_picks(regime, <<>>)]}

\* The regimes handed to the formatter: risk-on or risk-off, among them the
\* price 90 under the average 100.
RegimeSamples ==
    [raised : {"none"}, is_risk_on : BOOLEAN, spy_price : {90000, 110000},
     sma_value : {100000}, pct_diff : {-1000, 1000}]

\* The picks lists handed to the formatter: what the ranking returns for the
\* tables of up to MaxTop columns.
PickLists ==
    UNION {{r.picks : r \in compute_tmem_top_stocks(t, 253, MaxTop)}
              : t \in TablesUpTo(MaxTop)}

\* A call of format_tmem_monthly_picks with any regime and any picks list, or
\* the TMEM half of a rebalance with any SPY series, window, one-column table
\* and n_holdings, is about to be made.
InitTmemReport ==
    /\ AtRest
    /\ \/ call \in [op : {"format_tmem_monthly_picks"}, regime : RegimeSamples,
                     picks : PickLists, returned : {FALSE}, out : {NoMsg}]
       \/ call \in [op : {"tmem_rebalance"}, prices : SeriesUpTo(MaxW),
                     window : 1..MaxW, table : TablesUpTo(1), nrows : RowCounts,
                     n_holdings : 0..MaxTop, returned : {FALSE}, out : {NoCall}]

CallFormatTmem ==
    /\ call.op = "format_tmem_monthly_picks" /\ ~call.returned
    /\ call' = [call EXCEPT !.returned = TRUE,
                            !.out = format_tmem_monthly_picks(call.regime, call.picks)]
    /\ UNCHANGED <<sched, guild>>

CallTmemRebalance ==
    /\ call.op = "tmem_rebalance" /\ ~call.returned
    /\ \E out \in tmem_rebalance(call.prices, call.window, call.table,
                                  call.nrows, call.n_holdings) :
          call' = [call EXCEPT !.returned = TRUE, !.out = out]
    /\ UNCHANGED <<sched, guild>>

NextTmemReport == CallFormatTmem \/ CallTmemRebalance

SpecTmemReport == InitTmemReport /\ [][NextTmemReport]_vars

(* -------------------------- the formatters ----------------------------- *)

\* format_tmem_daily_signal, as the parts of the text it returns: the date in
\* the title (read from the clock), the regime line, the two prices, the
\* distance from the average without its sign, and the action.
format_tmem_daily_signal(regime) ==
    [date |-> DateStr(clock),
     status |-> IF regime.is_risk_on THEN "RISK-ON" ELSE "RISK-OFF",
     spy_price |-> regime.spy_price,
     sma_value |-> regime.sma_value,
     pct_abs |-> IF regime.pct_diff < 0 THEN 0 - regime.pct_diff ELSE regime.pct_diff,
     direction |-> IF regime.is_risk_on THEN "above" ELSE "below",
     action |-> IF regime.is_risk_on THEN "hold" ELSE "defensive"]

\* format_mec_monthly_picks, as the parts of the text it returns: the month in
\* the title (read from the clock), then always the table header, one row per
\* pick and the rebalance instructions; it has no defensive section.
format_mec_monthly_picks(picks) ==
    [date |-> MonthKey(clock),
     status |-> "none",
     defensive |-> FALSE,
     header |-> TRUE,
     rows |-> [k \in 1..Len(picks) |->
                 <<picks[k].rank, picks[k].ticker,
                   picks[k].momentum, picks[k].price>>]]

\* The picks lists handed to the formatters when two of their calls are
\* compared: what the rankings return for the tables of one column or none.
FewPicks ==
    UNION {{r.picks : r \in compute_tmem_top_stocks(t, 253, MaxTop)}
              : t \in TablesUpTo(1)}

\* A formatter is about to be called, and called again later with the same
\* arguments: 'made' counts the calls, 'first' and 'second' hold the texts.
InitFormat ==
    /\ SchedInit
    /\ \/ call \in [op : {"format_tmem_daily_signal"}, regime : RegimeSamples,
                     made : {0}, first : {NoCall}, second : {NoCall}]
       \/ call \in [op : {"format_tmem_monthly_picks"}, regime : RegimeSamples,
                     picks : FewPicks,
                     made : {0}, first : {NoCall}, second : {NoCall}]
       \/ call \in [op : {"format_mec_monthly_picks"}, picks : FewPicks,
                     made : {0}, first : {NoCall}, second : {NoCall}]

\* call after one more call of its formatter has returned msg.
Formatted(msg) ==
    IF call.made = 0
    THEN [call EXCEPT !.made = 1, !.first = msg]
    ELSE [call EXCEPT !.made = 2, !.second = msg]

FormatDaily ==
    /\ call.op = "format_tmem_daily_signal" /\ call.made < 2
    /\ call' = Formatted(format_tmem_daily_signal(call.regime))
    /\ UNCHANGED <<sched, guild>>

FormatTmemMonthly ==
    /\ call.op = "format_tmem_monthly_picks" /\ call.made < 2
    /\ call' = Formatted(format_tmem_monthly_picks(call.regime, call.picks))
    /\ UNCHANGED <<sched, guild>>

FormatMecMonthly ==
    /\ call.op = "format_mec_monthly_picks" /\ call.made < 2
    /\ call' = Formatted(format_mec_monthly_picks(call.picks))
    /\ UNCHANGED <<sched, guild>>

\* The formatters are called at any time; midnight passes between calls.
NextFormat ==
    \/ FormatDaily
    \/ FormatTmemMonthly
    \/ FormatMecMonthly
    \/ AdvanceClock /\ UNCHANGED <<call, guild>>

SpecFormat == InitFormat /\ [][NextFormat]_vars

(* --------------- discord_bot.py: roles of the members ------------------ *)

\* The member the webhooks and the join event are about.
Members == {"m1"}

\* The role names of config.ROLE_COLORS; all of them exist in the guild
\* (setup_server has run).
Roles == {"TMEM Signals", "MEC Signals"}

NoRole == "none"

\* The product ids a webhook may carry: the two configured ones and another.
Products == {"tmem_product", "mec_product", "other_product"}

\* PRODUCT_ROLE_MAP.get(product_id)
PRODUCT_ROLE_MAP(product_id) ==
    CASE product_id = "tmem_product" -> "TMEM Signals"
      [] product_id = "mec_product" -> "MEC Signals"
      [] OTHER -> NoRole

\* The webhook handler is idle; it runs one call at a time.
NoHook == [pc |-> "idle", member |-> "none", role |-> NoRole]

\* The bot is connected and nobody has joined yet.
\*   pending_roles  the module-level dict discord_id -> role_name
\*   joined         the member is in the guild
\*   member_roles   member.roles
\*   hook           the call of assign_role_to_member or remove_role_from_member
\*                  in progress: a_fetch, a_add, r_fetch, r_remove
\*   join           on_member_join of each member: none, sleep, done
\*   result         what the last webhook call returned
\*   queued         the roles assign_role_to_member has answered "Queued" for
\*   removeCalled   remove_role_from_member has been called
\*   ended          the roles whose removal returned success, with no call of
\*                  assign_role_to_member for them since
InitRoles ==
    /\ BotInit
    /\ clock = [ym |-> 0, day |-> 1, wd |-> 0]
    /\ call = NoCall
    /\ guild = [op |-> "roles",
                pending_roles |-> [m \in Members |-> NoRole],
                joined |-> [m \in Members |-> FALSE],
                member_roles |-> [m \in Members |-> {}],
                hook |-> NoHook,
                join |-> [m \in Members |-> [pc |-> "none", role |-> NoRole]],
                result |-> "none",
                queued |-> [m \in Members |-> {}],
                removeCalled |-> FALSE,
                ended |-> [m \in Members |-> {}]]

\* assign_role_to_member up to 'await guild.fetch_member(discord_id)'.
assign_role_to_member(m, product_id) ==
    /\ guild.op = "roles" /\ guild.hook.pc = "idle"
    /\ LET role_name == PRODUCT_ROLE_MAP(product_id)
       IN  IF role_name = NoRole
           THEN guild' = [guild EXCEPT !.result = "unknown_product"]
           ELSE guild' = [guild EXCEPT
                            !.hook = [pc |-> "a_fetch", member |-> m, role |-> role_name],
                            !.ended[m] = @ \ {role_name}]
    /\ UNCHANGED <<sched, call>>

\* fetch_member answers: HTTPException; NotFound, and the role is queued; the
\* member, who has the role already or is about to be given it.
AssignFetched ==
    /\ guild.op = "roles" /\ guild.hook.pc = "a_fetch"
    /\ LET m == guild.hook.member
           r == guild.hook.role
       IN  \E http_ok \in BOOLEAN :
             IF ~http_ok
             THEN guild' = [guild EXCEPT !.hook = NoHook, !.result = "api_error"]
             ELSE IF ~guild.joined[m]
             THEN guild' = [guild EXCEPT !.hook = NoHook, !.result = "queued",
                                         !.pending_roles[m] = r,
                                         !.queued[m] = @ \cup {r}]
             ELSE IF r \in guild.member_roles[m]
             THEN guild' = [guild EXCEPT !.hook = NoHook, !.result = "already"]
             ELSE guild' = [guild EXCEPT !.hook.pc = "a_add"]
    /\ UNCHANGED <<sched, call>>

\* 'await member.add_roles(role)' returns; the welcome DM follows.
AssignAdded ==
    /\ guild.op = "roles" /\ guild.hook.pc = "a_add"
    /\ guild' = [guild EXCEPT !.hook = NoHook, !.result = "assigned",
                              !.member_roles[guild.hook.member] = @ \cup {guild.hook.role}]
    /\ UNCHANGED <<sched, call>>

\* remove_role_from_member up to 'await guild.fetch_member(discord_id)':
\* pending_roles.pop(discord_id, None) comes before the fetch.
remove_role_from_member(m, product_id) ==
    /\ guild.op = "roles" /\ guild.hook.pc = "idle"
    /\ LET role_name == PRODUCT_ROLE_MAP(product_id)
       IN  IF role_name = NoRole
           THEN guild' = [guild EXCEPT !.result = "unknown_product"]
           ELSE guild' = [guild EXCEPT
                            !.hook = [pc |-> "r_fetch", member |-> m, role |-> role_name],
                            !.pending_roles[m] = NoRole,
                            !.removeCalled = TRUE]
    /\ UNCHANGED <<sched, call>>

\* fetch_member answers: HTTPException; NotFound, success; the member, who
\* does not have the role (success) or is about to lose it.
RemoveFetched ==
    /\ guild.op = "roles" /\ guild.hook.pc = "r_fetch"
    /\ LET m == guild.hook.member
           r == guild.hook.role
       IN  \E http_ok \in BOOLEAN :
             IF ~http_ok
             THEN guild' = [guild EXCEPT !.hook = NoHook, !.result = "api_error"]
             ELSE IF ~guild.joined[m]
             THEN guild' = [guild EXCEPT !.hook = NoHook, !.result = "not_in_server",
                                         !.ended[m] = @ \cup {r}]
             ELSE IF r \notin guild.member_roles[m]
             THEN guild' = [guild EXCEPT !.hook = NoHook, !.result = "no_such_role",
                                         !.ended[m] = @ \cup {r}]
             ELSE guild' = [guild EXCEPT !.hook.pc = "r_remove"]
    /\ UNCHANGED <<sched, call>>

\* 'await member.remove_roles(role)' returns; the farewell DM follows.
RemoveDone ==
    /\ guild.op = "roles" /\ guild.hook.pc = "r_remove"
    /\ LET m == guild.hook.member
           r == guild.hook.role
       IN  guild' = [guild EXCEPT !.hook = NoHook, !.result = "removed",
                                  !.member_roles[m] = @ \ {r},
                                  !.ended[m] = @ \cup {r}]
    /\ UNCHANGED <<sched, call>>

\* The member joins and on_member_join runs up to 'await asyncio.sleep(2)':
\* a pending entry is popped and its role kept in the local role_name.
on_member_join(m) ==
    /\ guild.op = "roles" /\ ~guild.joined[m]
    /\ IF guild.pending_roles[m] # NoRole
       THEN guild' = [guild EXCEPT
                        !.joined[m] = TRUE,
                        !.join[m] = [pc |-> "sleep", role |-> guild.pending_roles[m]],
                        !.pending_roles[m] = NoRole]
       ELSE guild' = [guild EXCEPT
                        !.joined[m] = TRUE,
                        !.join[m] = [pc |-> "done", role |-> NoRole]]
    /\ UNCHANGED <<sched, call>>

\* The sleep is over: 'await member.add_roles(role)', then the welcome DM.
JoinWake(m) ==
    /\ guild.op = "roles" /\ guild.join[m].pc = "sleep"
    /\ guild' = [guild EXCEPT
                    !.join[m].pc = "done",
                    !.member_roles[m] = @ \cup {guild.join[m].role}]
    /\ UNCHANGED <<sched, call>>

\* The webhook calls come one at a time; the join event and the end of its
\* sleep come at any moment in between.
NextRoles ==
    \/ \E m \in Members, product_id \in Products : assign_role_to_member(m, product_id)
    \/ AssignFetched
    \/ AssignAdded
    \/ \E m \in Members, product_id \in Products : remove_role_from_member(m, product_id)
    \/ RemoveFetched
    \/ RemoveDone
    \/ \E m \in Members : on_member_join(m)
    \/ \E m \in Members : JoinWake(m)

SpecRoles == InitRoles /\ [][NextRoles]_vars

(* ------------------- discord_bot.py: setup_server ---------------------- *)

\* The keys of config.ROLE_COLORS, in the order of the dict.
ROLE_COLORS == <<"TMEM Signals", "MEC Signals">>

\* config.CHANNEL_STRUCTURE in the order of the dict: the channel names
\* (written here without their emoji) and their categories.
CHANNEL_STRUCTURE ==
    << [name |-> "announcements",         category |-> "GENERAL"],
       [name |-> "general",               category |-> "GENERAL"],
       [name |-> "education",             category |-> "GENERAL"],
       [name |-> "tmem-signals",          category |-> "TMEM TRADING"],
       [name |-> "tmem-performance",      category |-> "TMEM TRADING"],
       [name |-> "tmem-discussion",       category |-> "TMEM TRADING"],
       [name |-> "mec-signals",           category |-> "MEC TRADING"],
       [name |-> "mec-performance",       category |-> "MEC TRADING"],
       [name |-> "mec-discussion",        category |-> "MEC TRADING"],
       [name |-> "daily-market-analysis", category |-> "MARKET INSIGHTS"] >>

ConfiguredRoles == {ROLE_COLORS[i] : i \in 1..Len(ROLE_COLORS)}

ConfiguredCategories ==
    {CHANNEL_STRUCTURE[i].category : i \in 1..Len(CHANNEL_STRUCTURE)}

ConfiguredChannels ==
    {CHANNEL_STRUCTURE[i].name : i \in 1..Len(CHANNEL_STRUCTURE)}

\* get_or_create_role: get_role_by_name(guild, role_name) is not None.
RoleExists(g, role_name) == role_name \in g.roles

\* get_or_create_role: the guild g after it; created lists the create calls.
get_or_create_role(g, role_name) ==
    IF RoleExists(g, role_name)
    THEN g
    ELSE [g EXCEPT !.roles = @ \cup {role_name},
                   !.created = Append(@, <<"role", role_name>>)]

\* setup_server: 'for role_name in ROLE_COLORS', from the i-th name on.
RECURSIVE CreateRoles(_, _)
CreateRoles(g, i) ==
    IF i > Len(ROLE_COLORS)
    THEN g
    ELSE CreateRoles(get_or_create_role(g, ROLE_COLORS[i]), i + 1)

\* A variant of ChannelExists that never finds the channel.
ChannelExists_Never(existing_channels, channel_name) == FALSE

\* setup_server: channel_name in existing_channels
ChannelExists(existing_channels, channel_name) ==
    channel_name \in existing_channels

\* setup_server: 'for channel_name, cfg in CHANNEL_STRUCTURE.items()', from
\* the i-th entry on.  existing_categories gets the categories the loop
\* creates; existing_channels is the snapshot taken before the loop.
RECURSIVE CreateChannels(_, _, _, _)
CreateChannels(g, existing_categories, existing_channels, i) ==
    IF i > Len(CHANNEL_STRUCTURE)
    THEN g
    ELSE LET cfg == CHANNEL_STRUCTURE[i]
             g1 == IF cfg.category \notin existing_categories
                   THEN [g EXCEPT !.categories = @ \cup {cfg.category},
                                  !.created = Append(@, <<"category", cfg.category>>)]
                   ELSE g
             g2 == IF ChannelExists(existing_channels, cfg.name)
                   THEN g1
                   ELSE [g1 EXCEPT !.channels = @ \cup {cfg.name},
                                   !.created = Append(@, <<"channel", cfg.name>>)]
         IN  CreateChannels(g2, existing_categories \cup {cfg.category},
                            existing_channels, i + 1)

\* setup_server on the guild g: the roles, then the snapshots of
\* guild.categories and guild.text_channels, then the channels.
setup_server(g) ==
    LET g1 == CreateRoles([g EXCEPT !.created = <<>>], 1)
    IN  CreateChannels(g1, g1.categories, g1.channels, 1)

\* The guild before setup_server has ever completed: any of the configured
\* roles, categories and channels may exist already.
InitSetup ==
    /\ BotInit
    /\ clock = [ym |-> 0, day |-> 1, wd |-> 0]
    /\ call = NoCall
    /\ \E r \in SUBSET ConfiguredRoles, c \in SUBSET ConfiguredCategories,
          ch \in SUBSET ConfiguredChannels :
          guild = [op |-> "setup", runs |-> 0,
                   roles |-> r, categories |-> c, channels |-> ch,
                   created |-> <<>>,
                   before |-> [roles |-> r, categories |-> c, channels |-> ch],
                   first |-> NoGuild]

\* on_ready: 'await setup_server()' runs to its end.
FirstSetup ==
    /\ guild.op = "setup" /\ guild.runs = 0
    /\ LET g == setup_server(guild)
       IN  guild' = [g EXCEPT !.runs = 1,
                              !.first = [roles |-> g.roles,
                                         categories |-> g.categories,
                                         channels |-> g.channels,
                                         created |-> g.created]]
    /\ UNCHANGED <<sched, call>>

\* cmd_setup (or on_ready after a reconnect): setup_server runs again.
SecondSetup ==
    /\ guild.op = "setup" /\ guild.runs = 1
    /\ guild' = [setup_server(guild) EXCEPT !.runs = 2]
    /\ UNCHANGED <<sched, call>>

NextSetup == FirstSetup \/ SecondSetup

SpecSetup == InitSetup /\ [][NextSetup]_vars

(* ------------------------------- claims -------------------------------- *)

\* C1: daily idempotence.  Over non-overlapping run_all_signals invocations,
\* with fetch and send free to fail, at most one daily regime report is
\* delivered while the date is D; and once last_daily_run is D, no step taken
\* while the date is still D delivers a daily report or changes last_daily_run.
C1_DailyIdempotent ==
    /\ [](dailyPubToday <= 1)
    /\ [][(last_daily_run = DateStr(clock) /\ clock' = clock)
            => (dailyPubToday' = dailyPubToday /\ last_daily_run' = last_daily_run)]_vars

\* C1 witness: a daily report was delivered today and a later invocation on
\* the same date was skipped by the guard.
C1_Witness ==
    \E p \in Procs :
        /\ pc[p] = "gate"
        /\ run[p].daily = "skip"
        /\ dailyPubToday = 1
        /\ last_daily_run = DateStr(clock)

\* C2: monthly guard.  Once last_monthly_run is the current year-month M, no
\* step taken while the year-month is still M starts a monthly fetch, delivers
\* a rebalance report or changes last_monthly_run.
C2_MonthlyGuard ==
    [][(last_monthly_run = MonthKey(clock) /\ MonthKey(clock') = MonthKey(clock))
        => /\ last_monthly_run' = last_monthly_run
           /\ tmemPubMonth' = tmemPubMonth
           /\ mecPubMonth' = mecPubMonth
           /\ \A p \in Procs : run'[p].mfetched => run[p].mfetched]_vars

\* C2 witness: on a weekday within days 1-3 of a month whose rebalance has
\* been delivered, a later invocation was skipped by the monthly guard.
C2_Witness ==
    \E p \in Procs :
        /\ pc[p] = "done"
        /\ run[p].monthly = "skip"
        /\ mecPubMonth = 1
        /\ last_monthly_run = MonthKey(clock)


\* The markers as a pair, as the snapshots pre, preD and preM hold them.
Markers == <<last_daily_run, last_monthly_run>>

\* The daily run of p has returned and nothing else has happened since.
DailyReturned(p) == pc[p] = "gate" /\ run[p].today # NoClock

\* The monthly run of p has returned and nothing else has happened since.
MonthlyReturned(p) == pc[p] = "done" /\ run[p].mtoday # NoClock

\* C3: a last-run marker is set only after a successful publish.  When a daily
\* run has changed last_daily_run, that run delivered its daily report; when a
\* monthly run has changed last_monthly_run, that run delivered the MEC report
\* and, in a quarter-start month, the TMEM report.
C3_MarkerOnlyAfterPublish ==
    \A p \in Procs :
        /\ (DailyReturned(p) /\ last_daily_run # run[p].preD[1])
              => run[p].dailySent
        /\ (MonthlyReturned(p) /\ last_monthly_run # run[p].preM[2])
              => (run[p].mecSent /\ (run[p].quarter => run[p].tmemSent))

\* C4 as claimed: state unchanged on failure.  After a daily or monthly run in
\* which a fetch returned an empty result or raised, a computation raised or
\* a send raised, both markers have the values they had before the run.
\* (Stated for the runs that found their channels: a run that set a marker
\* without a channel is C3's case.)
C4_UnchangedOnFailure ==
    \A p \in Procs :
        /\ (DailyReturned(p) /\ run[p].daily \in DailyFailures)
              => Markers = run[p].preD
        /\ (MonthlyReturned(p)
              /\ (run[p].monthly = "marked" => run[p].mecSent)
              /\ (\/ run[p].monthly \in MonthlyFailures
                  \/ run[p].spy \in {"raise", "nocols", "empty"}))
              => Markers = run[p].preM

\* C4 as amended: the same, except that an empty SPY frame counts as a failure
\* of a monthly run only in a quarter-start month, where the regime is
\* computed from it; in any other month the SPY series is not used.
C4_UnchangedOnFailureAmended ==
    \A p \in Procs :
        /\ (DailyReturned(p) /\ run[p].daily \in DailyFailures)
              => Markers = run[p].preD
        /\ (MonthlyReturned(p)
              /\ (\/ run[p].monthly \in MonthlyFailures
                  \/ run[p].spy \in {"raise", "nocols"}
                  \/ (run[p].spy = "empty" /\ run[p].quarter)))
              => Markers = run[p].preM

\* C4 witness: a monthly run whose MEC send raised has returned in a month
\* after one whose rebalance was recorded, and the markers are as before.
C4_Witness ==
    \E p \in Procs :
        /\ MonthlyReturned(p)
        /\ run[p].monthly = "mec_send_raised"
        /\ run[p].preM[2] # None
        /\ Markers = run[p].preM

\* C5: per-period idempotence of the monthly cycle under failures.  In every
\* year-month the TMEM rebalance report is delivered at most once and the MEC
\* rebalance report is delivered at most once.
C5_RebalanceAtMostOnce ==
    tmemPubMonth <= 1 /\ mecPubMonth <= 1

\* C6: no partial report.  A monthly run in a quarter-start month that has
\* fetched its data delivers both rebalance reports or neither; when the MEC
\* ranking or the MEC send has failed, the run has delivered no TMEM report.
C6_NoPartialReport ==
    \A p \in Procs :
        (MonthlyReturned(p) /\ run[p].mfetched /\ run[p].quarter)
            => /\ run[p].tmemSent <=> run[p].mecSent
               /\ run[p].monthly \in {"mec_raised", "mec_send_raised"}
                     => ~run[p].tmemSent


\* C7: a forced run bypasses the guards.  When the admin command has run on a
\* weekday and its daily run met no failure (no empty fetch, no exception, the
\* channel found), that invocation has delivered a daily regime report,
\* whatever the markers were.
C7_ForcedRunPublishes ==
    (/\ run["cmd"].now # NoClock
     /\ pc["cmd"] \in {"gate", "tmem_send", "mec_send", "done"}
     /\ run["cmd"].now.wd < 5
     /\ run["cmd"].daily \notin DailyFailures \cup {"nochan"})
        => run["cmd"].dailySent

C9_WeekendNoOp ==
    \A p \in Procs :
        (run[p].now # NoClock /\ run[p].now.wd >= 5)
            => /\ pc[p] \in {"gate", "done"}
               /\ ~run[p].dfetched /\ ~run[p].mfetched
               /\ ~run[p].dailySent /\ ~run[p].tmemSent /\ ~run[p].mecSent
               /\ Markers = run[p].pre

\* C9 witness: a weekend invocation within days 1-3 of a month whose rebalance
\* is still pending, with a daily marker already set, has completed.
C9_Witness ==
    \E p \in Procs :
        /\ pc[p] = "done"
        /\ run[p].now.wd >= 5
        /\ run[p].now.day <= 3
        /\ last_monthly_run # MonthKey(run[p].now)
        /\ last_daily_run # None

\* The invocation of p has got past the decision whether to run the monthly
\* cycle.
MonthlyDecided(p) ==
    run[p].now # NoClock /\ pc[p] \in {"tmem_send", "mec_send", "done"}

\* C10 as claimed: the grace window by day of month alone.  For an invocation
\* on day d of a month with no monthly run recorded, the monthly cycle is
\* triggered (its fetch is started) exactly when d <= 3.
C10_GraceWindowByDay ==
    \A p \in Procs :
        (MonthlyDecided(p) /\ run[p].pre[2] # MonthKey(run[p].now))
            => (run[p].mfetched <=> run[p].now.day <= 3)

\* C10 as amended: for an invocation on day d of a month with no monthly run
\* recorded, the monthly cycle is triggered exactly when d <= 3 and the day is
\* a Monday to Friday; in particular a weekday day 3 triggers it and day 4
\* does not.
C10_GraceWindowOnWeekdays ==
    \A p \in Procs :
        (MonthlyDecided(p) /\ run[p].pre[2] # MonthKey(run[p].now))
            => (run[p].mfetched <=> (run[p].now.day <= 3 /\ run[p].now.wd < 5))

\* C10 witness: an invocation on day 3 has started the monthly cycle.
C10_Witness ==
    \E p \in Procs :
        /\ MonthlyDecided(p)
        /\ run[p].now.day = 3
        /\ run[p].pre[2] # MonthKey(run[p].now)
        /\ run[p].mfetched

C14_Recoverable ==
    \A p \in Procs :
        ( /\ pc[p] = "done"
          /\ IsWeekday(run[p].now)
          /\ MonthKey(run[p].now) = MonthKey(clock)
          /\ tmemPubMonth >= 1 /\ ~run[p].tmemSent
          /\ run[p].pre[2] # MonthKey(run[p].now)
          /\ run[p].daily \in {"sent", "skip"}
          /\ run[p].monthly \notin MonthlyFailures
          /\ (run[p].monthly = "marked" => run[p].mecSent) )
            => mecPubMonth >= 1

\* C13: no overlapping runs.  Under every interleaving of the scheduled run
\* and a manual run that the event loop allows (a run starts while the other
\* is suspended at a send), at most one daily regime report is delivered
\* while the date stays the same.
C13_NoOverlap == dailyPubToday <= 1

\* The regime call has returned or raised.
RegimeDone == call.op = "compute_tmem_regime" /\ call.returned

\* C15: compute_tmem_regime raises its insufficient-data error, and returns
\* no result, for every series shorter than the window; for every series of
\* at least the window's length, the window's length included, it returns a
\* result.
C15_InsufficientData ==
    RegimeDone =>
        /\ Len(call.prices) < call.window => call.out = [raised |-> "ValueError"]
        /\ Len(call.prices) >= call.window
              => (call.out.raised = "none"
                  /\ DOMAIN call.out =
                       {"raised", "is_risk_on", "spy_price", "sma_value", "pct_diff"})

\* C15 witness: a series one row short of the window was turned away.
C15_Witness ==
    /\ RegimeDone
    /\ Len(call.prices) = call.window - 1
    /\ Len(call.prices) >= 1
    /\ call.out.raised = "ValueError"

\* The series of the call is constant, with value P its last price, and is at
\* least as long as the window.
ConstantWindow ==
    /\ Len(call.prices) >= call.window
    /\ \A i \in 1..Len(call.prices) : call.prices[i] = call.prices[Len(call.prices)]

\* The regime is risk-on exactly when the last price is strictly greater than
\* the arithmetic mean of the last window prices.
RegimeByDefinition ==
    (RegimeDone /\ Len(call.prices) >= call.window) =>
        (call.out.is_risk_on <=>
            call.prices[Len(call.prices)] * call.window
                > SumSeq(LastRows(call.prices, call.window)))

\* C16 as claimed: the regime definition, and for every constant series with
\* value P the result has moving_average_value = P, percent_difference = 0
\* and is_risk_on = false.
C16_RegimeDefinition ==
    /\ RegimeByDefinition
    /\ (RegimeDone /\ ConstantWindow) =>
           /\ call.out.sma_value = call.prices[Len(call.prices)]
           /\ call.out.pct_diff = 0
           /\ ~call.out.is_risk_on

\* C16 as amended: the regime definition, and for every constant series with
\* value P the result has moving_average_value = P rounded to two decimals
\* (a whole number of cents within half a cent of P), percent_difference = 0
\* and is_risk_on = false.
C16_RegimeDefinitionRounded ==
    /\ RegimeByDefinition
    /\ (RegimeDone /\ ConstantWindow) =>
           LET P == call.prices[Len(call.prices)]
           IN  /\ call.out.sma_value % 10 = 0
               /\ call.out.sma_value - P \in -5..5
               /\ call.out.pct_diff = 0
               /\ ~call.out.is_risk_on

\* C16 witness: a constant series of $100.003, at least as long as the window
\* and longer than one row, went through compute_tmem_regime.
C16_Witness ==
    /\ RegimeDone
    /\ ConstantWindow
    /\ Len(call.prices) >= 2
    /\ call.prices[1] = 100003
    /\ call.out.sma_value = 100000

\* A ranking call has been made; it has returned a list.
RankCalled ==
    call.op \in {"compute_tmem_top_stocks", "compute_mec_top_stocks"} /\ call.returned

RankDone == RankCalled /\ call.out.raised = "none"

\* C17 as claimed: the momentum values of the picks of either ranking are
\* strictly decreasing from one entry to the next.
C17_StrictlyDescending ==
    RankDone =>
        \A k \in 1..(Len(call.out.picks) - 1) :
            call.out.picks[k].momentum > call.out.picks[k + 1].momentum

\* C17 as amended: the momentum values of the picks of either ranking never
\* increase from one entry to the next; two consecutive picks may carry the
\* same reported value.
C17_NeverIncreasing ==
    RankDone =>
        \A k \in 1..(Len(call.out.picks) - 1) :
            call.out.picks[k].momentum >= call.out.picks[k + 1].momentum

\* C17 witness: a ranking came out with A (+10%) and E (+10.004%) as its two
\* picks, both with the reported momentum 10.0.
C17_Witness ==
    /\ RankDone
    /\ Len(call.out.picks) = 2
    /\ call.out.picks[1].momentum = 1000
    /\ call.out.picks[2].momentum = 1000
    /\ {call.out.picks[1].ticker, call.out.picks[2].ticker} = {"A", "E"}

\* The columns of the call's table, and the column of a ticker.
TableColumns == {call.table[i] : i \in 1..Len(call.table)}

ColumnOf(ticker) == CHOOSE c \in TableColumns : c.name = ticker

\* The tickers of the picks, in output order.
PickedTickers == [k \in 1..Len(call.out.picks) |-> call.out.picks[k].ticker]

\* Column a has a strictly higher 12-1 momentum than column b at the last row.
HigherMomentum(a, b) ==
    Shifted(a, call.nrows, 21) * Shifted(b, call.nrows, 252)
        > Shifted(b, call.nrows, 21) * Shifted(a, call.nrows, 252)

\* The columns with a momentum at the last row, a last price of at least 5.0
\* and a 60-row average dollar volume of at least 20,000,000.
TrendSet ==
    {c \in TableColumns :
        /\ Shifted(c, call.nrows, 21) >= 0 /\ Shifted(c, call.nrows, 252) >= 0
        /\ Cell(c, call.nrows, call.nrows) >= 5000
        /\ call.nrows >= 60
        /\ \A r \in (call.nrows - 59)..call.nrows : Cell(c, call.nrows, r) >= 0
        /\ DollarVolSum(c, call.nrows, call.nrows - 59, call.nrows) * 10
               >= 20000000 * 60}

\* The picks are the top n_holdings of the set S by descending momentum: as
\* many as S allows, each of S and listed once, none of them below a column of
\* S that was left out, and in descending order.
TopOf(S) ==
    LET n == Len(call.out.picks)
        want == IF call.n_holdings < Cardinality(S)
                THEN call.n_holdings ELSE Cardinality(S)
    IN  /\ n = want
        /\ \A k \in 1..n : \E c \in S : c.name = PickedTickers[k]
        /\ \A j, k \in 1..n : PickedTickers[j] = PickedTickers[k] => j = k
        /\ \A c \in S :
              (\A k \in 1..n : PickedTickers[k] # c.name)
                 => \A k \in 1..n : ~HigherMomentum(c, ColumnOf(PickedTickers[k]))
        /\ \A j, k \in 1..n :
              j < k => ~HigherMomentum(ColumnOf(PickedTickers[k]),
                                       ColumnOf(PickedTickers[j]))

\* C18: for every table and every n_holdings >= 0, either ranking returns,
\* without raising, a list of exactly min(n_holdings, number of eligible
\* tickers) picks whose ranks are 1, 2, ... in output order and whose tickers
\* are all different.
C18_LengthAndRanks ==
    RankCalled =>
        /\ call.out.raised = "none"
        /\ Len(call.out.picks) =
              LET e == IF call.op = "compute_tmem_top_stocks"
                       THEN Cardinality(TmemEligible(call.table, call.nrows))
                       ELSE Cardinality(MecEligible(call.table, call.nrows))
              IN  IF call.n_holdings < e THEN call.n_holdings ELSE e
        /\ \A k \in 1..Len(call.out.picks) : call.out.picks[k].rank = k
        /\ \A j, k \in 1..Len(call.out.picks) :
              call.out.picks[j].ticker = call.out.picks[k].ticker => j = k

ConfirmedSet ==
    {c \in TrendSet :
        \/ Shifted(c, call.nrows, 126) >= 0
              /\ Shifted(c, call.nrows, 21) > Shifted(c, call.nrows, 126)
        \/ Shifted(c, call.nrows, 63) >= 0
              /\ Shifted(c, call.nrows, 21) > Shifted(c, call.nrows, 63)}

\* C20: every ticker in the list compute_mec_top_stocks returns passes the
\* price and liquidity filters and has a 6-month or a 3-month momentum
\* strictly above 0, both measured from the price of a month ago; a ticker
\* with neither never appears, however high its 12-1 momentum; and the list
\* is the top n_holdings of the confirmed tickers by descending 12-1 momentum.
C20_EarningsConfirmed ==
    (RankDone /\ call.op = "compute_mec_top_stocks") =>
        /\ TopOf(ConfirmedSet)
        /\ \A k \in 1..Len(call.out.picks) : PickedTickers[k] \notin {"B", "Z"}

\* C20 witness: from a table with Z (+60%, 6- and 3-month momentum negative)
\* and D (+10%, 3-month momentum positive only) the ranking returned D alone.
C20_Witness ==
    /\ RankDone /\ call.op = "compute_mec_top_stocks"
    /\ call.nrows = 253 /\ call.n_holdings = 2
    /\ {c.name : c \in TableColumns} = {"Z", "D"}
    /\ PickedTickers = <<"D">>

\* C12: risk-off means fully defensive.  In the TMEM half of a rebalance the
\* ranking is computed exactly when the regime is risk-on (the last SPY price
\* strictly above the mean of the window), and under a risk-off regime the
\* report has the fully-defensive message and no table and no rows; and
\* format_tmem_monthly_picks called with a risk-off regime renders the
\* fully-defensive message and zero rows for every picks list it is handed.
C12_RiskOffFullyDefensive ==
    /\ (call.op = "tmem_rebalance" /\ call.returned
          /\ Len(call.prices) >= call.window) =>
           LET riskOn == call.prices[Len(call.prices)] * call.window
                            > SumSeq(LastRows(call.prices, call.window))
           IN  /\ call.out.ranked <=> riskOn
               /\ ~riskOn => /\ call.out.raised = "none"
                             /\ call.out.tmem_picks = <<>>
                             /\ call.out.tmem_msg.defensive
                             /\ ~call.out.tmem_msg.header
                             /\ call.out.tmem_msg.rows = <<>>
    /\ (call.op = "tmem_rebalance" /\ call.returned
          /\ Len(call.prices) < call.window) => ~call.out.ranked
    /\ (call.op = "format_tmem_monthly_picks" /\ call.returned
          /\ ~call.regime.is_risk_on) =>
           /\ call.out.defensive
           /\ ~call.out.header
           /\ call.out.rows = <<>>

\* C12 witness: format_tmem_monthly_picks was handed the risk-off regime of
\* the price 90 under the average 100 together with two picks, and rendered no
\* row.
C12_Witness ==
    /\ call.op = "format_tmem_monthly_picks" /\ call.returned
    /\ ~call.regime.is_risk_on
    /\ call.regime.spy_price = 90000
    /\ Len(call.picks) = 2
    /\ call.out.defensive
    /\ call.out.rows = <<>>

\* The place of a ticker among the columns of the call's table.
ColumnIndex(ticker) ==
    CHOOSE i \in 1..Len(call.table) : call.table[i].name = ticker

\* C21: stable tie-break.  Whenever two picks of either ranking have equal
\* 12-1 momentum, they stand in the output in the order of their columns in
\* the table.
C21_StableTieBreak ==
    RankDone =>
        \A j, k \in 1..Len(call.out.picks) :
            ( /\ j < k
              /\ ~HigherMomentum(ColumnOf(PickedTickers[j]), ColumnOf(PickedTickers[k]))
              /\ ~HigherMomentum(ColumnOf(PickedTickers[k]), ColumnOf(PickedTickers[j])) )
                => ColumnIndex(PickedTickers[j]) < ColumnIndex(PickedTickers[k])

\* C22: empty universe is not an error.  Called with a table without rows or
\* without ticker columns, either ranking returns the empty list and does not
\* raise.
C22_EmptyUniverse ==
    (RankCalled /\ (call.nrows = 0 \/ Len(call.table) = 0)) =>
        /\ call.out.raised = "none"
        /\ call.out.picks = <<>>

\* The columns of the call's table that have a price 21 rows and 252 rows
\* before the last row, in table order.
WithMomentum ==
    SelectSeq(call.table,
              LAMBDA c : Shifted(c, call.nrows, 21) >= 0
                         /\ Shifted(c, call.nrows, 252) >= 0)

\* C23: undefined momentum excludes.  A ticker without a price 252 rows or 21
\* rows before the last row is in no pick of either ranking (so it is not
\* ranked with a momentum of 0 either), and the list returned is one the same
\* function returns for the table without such tickers.
C23_UndefinedMomentumExcludes ==
    RankDone =>
        /\ \A k \in 1..Len(call.out.picks) :
              LET c == ColumnOf(PickedTickers[k])
              IN  Shifted(c, call.nrows, 21) >= 0 /\ Shifted(c, call.nrows, 252) >= 0
        /\ call.out \in
              IF call.op = "compute_tmem_top_stocks"
              THEN compute_tmem_top_stocks(WithMomentum, call.nrows, call.n_holdings)
              ELSE compute_mec_top_stocks(WithMomentum, call.nrows, call.n_holdings)

\* C23 witness: a table of 253 rows held S, which has its last 252 rows only
\* and passes both filters, next to A; the ranking returned A alone.
C23_Witness ==
    /\ RankDone
    /\ call.nrows = 253 /\ call.n_holdings = 2
    /\ {c.name : c \in TableColumns} = {"S", "A"}
    /\ price_filter(ColumnOf("S"), call.nrows)
    /\ adv_filter(ColumnOf("S"), call.nrows)
    /\ PickedTickers = <<"A">>

\* The last row of column c that holds a price, 0 when there is none.
LastObservation(c) ==
    IF \E r \in 1..call.nrows : Cell(c, call.nrows, r) >= 0
    THEN CHOOSE r \in 1..call.nrows :
            /\ Cell(c, call.nrows, r) >= 0
            /\ \A q \in (r + 1)..call.nrows : Cell(c, call.nrows, q) < 0
    ELSE 0

\* Column c, taken at its own last observation, has a price 21 and 252 rows
\* back, a price of at least 5.0 and 60 rows of dollar volume averaging at
\* least 20,000,000.
EligibleAtOwnDate(c) ==
    LET last == LastObservation(c)
    IN  /\ last > 252
        /\ Cell(c, call.nrows, last - 21) >= 0
        /\ Cell(c, call.nrows, last - 252) >= 0
        /\ Cell(c, call.nrows, last) >= 5000
        /\ \A r \in (last - 59)..last : Cell(c, call.nrows, r) >= 0
        /\ DollarVolSum(c, call.nrows, last - 59, last) * 10 >= 20000000 * 60

\* C24: a ticker whose series ends before the last row of the table, and
\* which has the history and passes the filters at its own last observation,
\* is ranked by compute_tmem_top_stocks when n_holdings leaves room for every
\* column of the table.
C24_OwnLatestDate ==
    (RankDone /\ call.op = "compute_tmem_top_stocks"
       /\ call.n_holdings >= Len(call.table)) =>
        \A c \in TableColumns :
            (LastObservation(c) < call.nrows /\ EligibleAtOwnDate(c))
                => \E k \in 1..Len(call.out.picks) : PickedTickers[k] = c.name

\* C25: empty-picks rendering.  Whenever format_mec_monthly_picks is called
\* with no picks, or format_tmem_monthly_picks with a risk-on regime and no
\* picks, the text has an explicit fully-defensive / no-eligible-positions
\* message and has no table header over zero rows.
C25_EmptyPicksMessage ==
    ( /\ call.op \in {"format_mec_monthly_picks", "format_tmem_monthly_picks"}
      /\ call.made >= 1
      /\ call.picks = <<>>
      /\ call.op = "format_tmem_monthly_picks" => call.regime.is_risk_on )
        => (call.first.defensive /\ ~call.first.header)

\* C26: formatter determinism.  Two calls of a formatter with the same
\* arguments, whatever the clock shows at each, return the same text.
C26_FormatterDeterminism ==
    ( /\ call.op \in {"format_tmem_daily_signal", "format_tmem_monthly_picks",
                      "format_mec_monthly_picks"}
      /\ call.made = 2 )
        => call.first = call.second

\* C27: the offensive rebalance does not depend on the defensive step.  A
\* monthly run that fetched the universe data and whose defensive (TMEM) send
\* raised has nevertheless published the offensive (MEC) report when it ends.
C27_MecIndependentOfTmem ==
    \A p \in Procs :
        ( /\ pc[p] = "done"
          /\ run[p].mfetched
          /\ run[p].quarter
          /\ run[p].monthly = "tmem_send_raised" )
            => run[p].mecSent

\* C28: error isolation.  A run whose daily or monthly cycle failed (an empty
\* fetch, or an exception of a fetch, a computation or a send) is still inside
\* run_all_signals or has returned from it normally; and a run whose daily
\* cycle failed on a day when the monthly cycle is due has gone on to the
\* monthly cycle by the time it ends.
C28_ErrorIsolation ==
    \A p \in Procs :
        /\ run[p].daily \in DailyFailures
             => pc[p] \in {"gate", "tmem_send", "mec_send", "done"}
        /\ run[p].monthly \in MonthlyFailures => pc[p] = "done"
        /\ ( /\ pc[p] = "done"
             /\ run[p].daily \in DailyFailures
             /\ MonthlyDue(run[p].now) )
               => /\ run[p].mtoday # NoClock
                  /\ run[p].monthly \notin {"none", "notdue"}

\* A run whose daily cycle raised and whose monthly cycle, on the same tick,
\* went through to the marker.
C28_Witness ==
    \E p \in Procs :
        /\ pc[p] = "done"
        /\ run[p].daily \in {"raised", "send_raised"}
        /\ run[p].monthly = "marked"
        /\ run[p].mecSent

\* C29: daily retry liveness.  While a failure of the daily cycle is waiting
\* for its retry, a weekday run of the task is not skipped, and when its fetch
\* succeeds and its send returns, a daily report is delivered and
\* last_daily_run becomes that day's date; and, the task firing every day and
\* fetch and send succeeding again and again, every failure of the daily
\* cycle is followed by a delivered daily report.
C29_DailyRetry ==
    /\ [][ /\ (call.op = "daily_cycle" /\ call.failed /\ pc["task"] = "daily")
                => run'["task"].daily # "skip"
           /\ ( /\ call.op = "daily_cycle" /\ call.failed
                /\ pc["task"] = "daily_send"
                /\ run'["task"].daily = "sent" )
                => /\ dailyPubToday' >= 1
                   /\ last_daily_run' = DateStr(clock')
                   /\ call'.recovered ]_vars
    /\ (call.op = "daily_cycle" /\ call.failed)
          ~> (call.op = "daily_cycle" /\ call.recovered)

\* A daily report delivered by a run of the task after an earlier daily run
\* had failed.
C29_Witness ==
    /\ call.op = "daily_cycle"
    /\ call.recovered
    /\ run["task"].dailySent
    /\ dailyPubToday >= 1
    /\ last_daily_run = DateStr(clock)

\* C30: one clock value per tick.  Also when midnight passes during a run, a
\* run that has set the daily marker took the date from the clock value of
\* its weekday check, so the date is not a Saturday or Sunday; and a run that
\* has set the monthly marker took its year-month, its day-of-month test and
\* its quarter-month test from that same value, so its day is at most 3.
C30_OneClockValue ==
    \A p \in Procs :
        /\ run[p].daily \in {"sent", "nochan"}
             => /\ run[p].today = run[p].now
                /\ IsWeekday(run[p].today)
        /\ run[p].monthly = "marked"
             => /\ run[p].mtoday = run[p].now
                /\ run[p].mtoday.day <= 3
                /\ run[p].quarter = is_tmem_quarter(run[p].now)

\* A run whose weekday check was made on a Friday and which has set the daily
\* marker to the date of the Saturday that began before it read the date.
C30_SaturdayMarker ==
    /\ run["cmd"].daily \in {"sent", "nochan"}
    /\ run["cmd"].now.wd = 4
    /\ run["cmd"].today.wd = 5
    /\ last_daily_run = DateStr(run["cmd"].today)

\* C31: the two cycles are tracked independently.  No step of
\* run_daily_tmem_signal changes last_monthly_run and no step of
\* run_monthly_rebalance changes last_daily_run; the daily run is skipped only
\* when the daily marker holds today's date, whatever the monthly marker
\* holds, and the monthly run is skipped only when the monthly marker holds
\* this month, whatever the daily marker holds.
C31_IndependentMarkers ==
    [][ \A p \in Procs :
          /\ (pc[p] \in {"daily", "daily_send"} /\ pc'[p] # pc[p])
                => last_monthly_run' = last_monthly_run
          /\ (pc[p] \in {"gate", "tmem_send", "mec_send"} /\ pc'[p] # pc[p])
                => last_daily_run' = last_daily_run
          /\ (pc[p] = "daily" /\ pc'[p] # pc[p])
                => (run'[p].daily = "skip" <=> last_daily_run = DateStr(clock))
          /\ (pc[p] = "gate" /\ pc'[p] # pc[p] /\ MonthlyDue(run[p].now))
                => (run'[p].monthly = "skip" <=> last_monthly_run = MonthKey(clock))
      ]_vars

\* A run that skipped the daily cycle, done for today, and went through the
\* monthly cycle to its marker, leaving the daily marker as it was.
C31_Witness ==
    \E p \in Procs :
        /\ pc[p] = "done"
        /\ run[p].daily = "skip"
        /\ run[p].monthly = "marked"
        /\ last_daily_run = run[p].preD[1]
        /\ last_monthly_run = MonthKey(run[p].mtoday)

\* The weekday of day d of the month of clock value t.
WeekdayOfDay(t, d) == (t.wd + 7 * DaysPerMonth + d - t.day) % 7

\* The first Monday-Friday date among days 1-3 of the month of t; 0 if none.
FirstTradingDay(t) ==
    IF WeekdayOfDay(t, 1) < 5 THEN 1
    ELSE IF WeekdayOfDay(t, 2) < 5 THEN 2
    ELSE IF WeekdayOfDay(t, 3) < 5 THEN 3
    ELSE 0

\* C32: the 3-day grace window always covers a trading weekday.  With one
\* tick of the task on every calendar day from the 1st on and no failure, at
\* the end of each day's tick the month is marked exactly when the first
\* Monday-Friday date among days 1-3 has come, a monthly run goes through to
\* the marker only on that date, and no report of the month is delivered
\* twice.
C32_GraceWindow ==
    /\ FirstTradingDay(clock) \in 1..3
    /\ (AllIdle /\ taskFired)
          => (last_monthly_run = MonthKey(clock)
                 <=> clock.day >= FirstTradingDay(clock))
    /\ run["task"].monthly = "marked"
          => /\ run["task"].mtoday.day = FirstTradingDay(run["task"].mtoday)
             /\ run["task"].preM[2] # MonthKey(run["task"].mtoday)
    /\ mecPubMonth <= 1
    /\ tmemPubMonth <= 1

\* A month whose 1st was a Saturday: the monthly cycle has run on Monday the
\* 3rd and delivered the offensive report.
C32_Witness ==
    /\ clock.day = 3
    /\ clock.wd = 0
    /\ pc["task"] = "done"
    /\ run["task"].monthly = "marked"
    /\ run["task"].mecSent
    /\ last_monthly_run = MonthKey(clock)

\* C33: publication order within one tick.  While a run is in its daily
\* cycle it has published no rebalance report and has not entered the monthly
\* cycle; while it awaits the TMEM send it has not published the MEC report,
\* and in a quarter month the MEC report is published only after the TMEM
\* report (or after the TMEM channel was found missing); and once a run that
\* delivered the daily report is at or past a rebalance send, last_daily_run
\* already holds that day's date.
C33_PublicationOrder ==
    \A p \in Procs :
        /\ pc[p] \in {"daily", "daily_send"}
              => /\ ~run[p].tmemSent /\ ~run[p].mecSent
                 /\ run[p].mtoday = NoClock
        /\ pc[p] = "tmem_send" => ~run[p].mecSent
        /\ (run[p].quarter /\ (run[p].mecSent \/ pc[p] = "mec_send"))
              => (run[p].tmemSent \/ run[p].tmemNoChan)
        /\ ( /\ run[p].dailySent
             /\ (run[p].tmemSent \/ run[p].mecSent
                    \/ pc[p] \in {"tmem_send", "mec_send"}) )
              => last_daily_run = DateStr(run[p].today)

\* A run in a quarter month in which nothing failed: the daily report, the
\* TMEM report and the MEC report were all delivered.
C33_Witness ==
    \E p \in Procs :
        /\ pc[p] = "done"
        /\ run[p].dailySent
        /\ run[p].quarter
        /\ run[p].tmemSent
        /\ run[p].mecSent
        /\ run[p].monthly = "marked"

\* Both rankings of one table have returned a list.
BothRanked ==
    /\ call.op = "tmem_and_mec"
    /\ call.tmem_done /\ call.mec_done
    /\ call.tmem.raised = "none" /\ call.mec.raised = "none"

\* The entries of the TMEM list whose ticker has a 6-month or a 3-month
\* momentum above zero, in the order of the TMEM list, as <<ticker, momentum,
\* price>>.
TmemConfirmedEntries ==
    LET kept == SelectSeq(call.tmem.picks,
                    LAMBDA e : \E i \in 1..Len(call.table) :
                        /\ call.table[i].name = e.ticker
                        /\ Confirmed(call.table[i], call.nrows))
    IN  [k \in 1..Len(kept) |-> <<kept[k].ticker, kept[k].momentum, kept[k].price>>]

MecEntries ==
    [k \in 1..Len(call.mec.picks) |->
        <<call.mec.picks[k].ticker, call.mec.picks[k].momentum, call.mec.picks[k].price>>]

\* C34: the offensive ranking refines the defensive one.  With n_holdings at
\* least the number of tickers, the list of compute_mec_top_stocks is the list
\* of compute_tmem_top_stocks for the same table without the tickers that
\* have neither a 6-month nor a 3-month momentum above zero: same order, same
\* momentum and price per ticker.
C34_MecRefinesTmem ==
    BothRanked => MecEntries = TmemConfirmedEntries

\* The same, for tables in which no two tickers have the same 12-1 momentum.
C34_MecRefinesTmem_NoTies ==
    ( /\ BothRanked
      /\ \A i, j \in 1..Len(call.table) :
            (i # j /\ i \in TmemEligible(call.table, call.nrows)
                   /\ j \in TmemEligible(call.table, call.nrows))
              => ~(ScoreGE(call.table[i], call.table[j])
                     /\ ScoreGE(call.table[j], call.table[i])) )
        => MecEntries = TmemConfirmedEntries

\* C35: every queued role is applied on arrival.  When on_member_join of a
\* member is over, and no removal was asked for, the member has every role
\* that assign_role_to_member queued for them before they joined, and
\* pending_roles holds no entry for them.
C35_QueuedRolesApplied ==
    guild.op = "roles" =>
        \A m \in Members :
            (guild.join[m].pc = "done" /\ ~guild.removeCalled)
                => /\ guild.queued[m] \subseteq guild.member_roles[m]
                   /\ guild.pending_roles[m] = NoRole

\* C36: an ended subscription stays ended.  A member does not hold a role
\* whose removal has returned success, unless assign_role_to_member was called
\* for it afterwards.
C36_EndedStaysEnded ==
    guild.op = "roles" =>
        \A m \in Members :
            guild.ended[m] \cap guild.member_roles[m] = {}

\* C37: setup_server is idempotent.  From any guild state, the first run
\* creates only what was missing and nothing twice, and leaves every
\* configured role, category and channel in place; the second run creates
\* nothing and leaves the roles, categories and channels as the first left
\* them.
C37_SetupIdempotent ==
    /\ (guild.op = "setup" /\ guild.runs >= 1)
          => /\ \A i, j \in 1..Len(guild.first.created) :
                   guild.first.created[i] = guild.first.created[j] => i = j
             /\ \A i \in 1..Len(guild.first.created) :
                   LET kind == guild.first.created[i][1]
                       name == guild.first.created[i][2]
                   IN  CASE kind = "role" ->
                              name \in ConfiguredRoles \ guild.before.roles
                         [] kind = "category" ->
                              name \in ConfiguredCategories \ guild.before.categories
                         [] OTHER ->
                              name \in ConfiguredChannels \ guild.before.channels
             /\ guild.first.roles = guild.before.roles \cup ConfiguredRoles
             /\ guild.first.categories = guild.before.categories \cup ConfiguredCategories
             /\ guild.first.channels = guild.before.channels \cup ConfiguredChannels
    /\ (guild.op = "setup" /\ guild.runs = 2)
          => /\ guild.created = <<>>
             /\ guild.roles = guild.first.roles
             /\ guild.categories = guild.first.categories
             /\ guild.channels = guild.first.channels

\* A guild that had some of the channels but not all, and a category missing
\* whose channel existed: the first run created things, the second has run.
C37_Witness ==
    /\ guild.op = "setup"
    /\ guild.runs = 2
    /\ "general" \in guild.before.channels
    /\ "GENERAL" \notin guild.before.categories
    /\ "mec-signals" \notin guild.before.channels
    /\ Len(guild.first.created) >= 3
    /\ guild.created = <<>>

=============================================================================
